---------------------------- MODULE Spec2Model ----------------------------
(***************************************************************************)
(* Face tracking of FaceDome (src/App.tsx, second App component, lines     *)
(* 305-904): the detection loop that turns the detector's per-frame boxes  *)
(* into identified, Kalman-smoothed tracks.                                *)
(*                                                                         *)
(* JavaScript numbers are modelled as exact rationals [n, d] in lowest     *)
(* terms (d > 0).  Distances are kept squared, as big naturals, so that    *)
(* Math.hypot comparisons are exact.  Array indices are 1-based here.      *)
(***************************************************************************)
EXTENDS Integers, Sequences, FiniteSets, TLC

VARIABLES
    tracks,         \* trackedFacesRef.current
    nextFaceId,     \* nextFaceIdRef.current
    faces,          \* React state `faces` (what the renderer is handed)
    lastVideoTime,  \* lastVideoTimeRef.current
    faceDetector,   \* services/faceDetectionService.ts: faceDetector # null
    init,           \* where the call of initializeFaceDetector stands
    clock,          \* performance.now(), in ms
    videoTime,      \* video.currentTime
    playing,        \* !video.paused && !video.ended
    session,        \* number of loadedmetadata events handled so far
    lastFrame,      \* history: the locals of the last frame the loop tracked
    expired,        \* history: [session, id, box] of every track the prune step removed
    issued,         \* history: the ids issued in the current session, in order
    timestamps,     \* history: the video timestamps tracked in the current session
    filter,         \* a SimpleKalmanFilter on its own
    measured,       \* history: the measurements filter.update was called with
    returned,       \* the value the last filter.update returned
    pool,           \* DomeGallery on its own: its faces prop, buildItems' pool
    seg,            \* DomeGallery on its own: its segments prop, buildItems' seg
    items,          \* DomeGallery on its own: items, what buildItems returned
    setups,         \* the setup effect on its own: the runs of setup(), each where it is
    video,          \* the video element: its source, loadedmetadata event and handler
    loops,          \* the requestAnimationFrame chains that are running
    animationFrame, \* animationFrameRef.current: the chain whose request it holds
    detectors       \* history: the number of FaceDetectors created

trackerVars == <<tracks, nextFaceId, faces, lastVideoTime>>
envVars     == <<faceDetector, init, clock, videoTime, playing, session>>
histVars    == <<lastFrame, expired, issued, timestamps>>
kalmanVars  == <<filter, measured, returned>>
domeVars    == <<pool, seg, items>>
setupVars   == <<setups, video, loops, animationFrame, detectors>>
unitVars    == <<filter, measured, returned, pool, seg, items,
                 setups, video, loops, animationFrame, detectors>>
vars        == <<tracks, nextFaceId, faces, lastVideoTime, faceDetector, init, clock,
                 videoTime, playing, session, lastFrame, expired, issued,
                 timestamps,
                filter, measured, returned, pool, seg, items,
                setups, video, loops, animationFrame, detectors>>

---------------------------------------------------------------------------
(* Bounds of the model *)

\* The clock stops at MaxClock ms.
MaxClock == 500

\* At most MaxSessions loadedmetadata events (source changes) are explored.
MaxSessions == 2

---------------------------------------------------------------------------
(* Evaluation helpers *)

\* With(e, F) is LET v == e IN F(v), with e evaluated once, whatever the
\* number of uses of v.
With(e, F(_)) == CHOOSE r \in {F(v) : v \in {e}} : TRUE

With2(e1, e2, F(_, _)) == CHOOSE r \in {F(u, v) : u \in {e1}, v \in {e2}} : TRUE

With3(e1, e2, e3, F(_, _, _)) ==
    CHOOSE r \in {F(u, v, w) : u \in {e1}, v \in {e2}, w \in {e3}} : TRUE

---------------------------------------------------------------------------
(* Exact arithmetic for JavaScript numbers *)

Abs(a) == IF a < 0 THEN -a ELSE a

RECURSIVE GCD(_, _)
GCD(a, b) == IF b = 0 THEN a ELSE With2(b, a % b, LAMBDA x, y : GCD(x, y))

\* n/d in lowest terms, d > 0
R(n0, d0) ==
    With2(n0, d0, LAMBDA n, d :
    With(GCD(Abs(n), Abs(d)), LAMBDA g :
        IF d < 0 THEN [n |-> (-n) \div g, d |-> (-d) \div g]
                 ELSE [n |-> n \div g, d |-> d \div g]))

Num(i) == [n |-> i, d |-> 1]

RAdd(a0, b0) ==
    With2(a0, b0, LAMBDA a, b :
    With(GCD(a.d, b.d), LAMBDA g :
        R(a.n * (b.d \div g) + b.n * (a.d \div g), (a.d \div g) * b.d)))

RNeg(a0) == With(a0, LAMBDA a : [n |-> -a.n, d |-> a.d])

RSub(a, b) == RAdd(a, RNeg(b))

RMul(a0, b0) ==
    With2(a0, b0, LAMBDA a, b :
    With2(GCD(Abs(a.n), b.d), GCD(Abs(b.n), a.d), LAMBDA g1, g2 :
        [n |-> (a.n \div g1) * (b.n \div g2), d |-> (a.d \div g2) * (b.d \div g1)]))

\* a / b for b # 0
RDiv(a, b0) == With(b0, LAMBDA b : RMul(a, R(b.d, b.n)))

RLess(a0, b0) == With2(a0, b0, LAMBDA a, b : a.n * b.d < b.n * a.d)

\* Math.max
RMax(a0, b0) == With2(a0, b0, LAMBDA a, b : IF RLess(a, b) THEN b ELSE a)

\* Big naturals: little-endian sequences of limbs in base 10000.
RECURSIVE BigOf(_)
BigOf(n0) ==
    With(n0, LAMBDA n : IF n = 0 THEN <<>> ELSE <<n % 10000>> \o BigOf(n \div 10000))

RECURSIVE BigAddC(_, _, _)
BigAddC(a0, b0, c0) ==
    With3(a0, b0, c0, LAMBDA a, b, c :
        IF a = <<>> /\ b = <<>>
        THEN IF c = 0 THEN <<>> ELSE <<c>>
        ELSE With((IF a = <<>> THEN 0 ELSE Head(a)) + (IF b = <<>> THEN 0 ELSE Head(b)) + c,
                  LAMBDA s :
                      <<s % 10000>> \o BigAddC(IF a = <<>> THEN a ELSE Tail(a),
                                               IF b = <<>> THEN b ELSE Tail(b),
                                               s \div 10000)))

BigAdd(a, b) == BigAddC(a, b, 0)

RECURSIVE BigMulLimb(_, _, _)
BigMulLimb(a0, m0, c0) ==
    With3(a0, m0, c0, LAMBDA a, m, c :
        IF a = <<>>
        THEN IF c = 0 THEN <<>> ELSE <<c>>
        ELSE With(Head(a) * m + c, LAMBDA s :
                 <<s % 10000>> \o BigMulLimb(Tail(a), m, s \div 10000)))

RECURSIVE BigMul(_, _)
BigMul(a0, b0) ==
    With2(a0, b0, LAMBDA a, b :
        IF a = <<>> \/ b = <<>>
        THEN <<>>
        ELSE BigAdd(BigMulLimb(b, Head(a), 0), <<0>> \o BigMul(Tail(a), b)))

RECURSIVE BigTrim(_)
BigTrim(a0) ==
    With(a0, LAMBDA a :
        IF a # <<>> /\ a[Len(a)] = 0 THEN BigTrim(SubSeq(a, 1, Len(a) - 1)) ELSE a)

RECURSIVE BigLessT(_, _)
BigLessT(a0, b0) ==
    With2(a0, b0, LAMBDA a, b :
        IF Len(a) # Len(b) THEN Len(a) < Len(b)
        ELSE IF a = <<>> THEN FALSE
        ELSE IF a[Len(a)] # b[Len(b)] THEN a[Len(a)] < b[Len(b)]
        ELSE BigLessT(SubSeq(a, 1, Len(a) - 1), SubSeq(b, 1, Len(b) - 1)))

BigLess(a, b) == BigLessT(BigTrim(a), BigTrim(b))

BigSq(i) == With(BigOf(Abs(i)), LAMBDA b : BigMul(b, b))

\* The square of a rational, as a fraction of big naturals.
SqOf(a0) == With(a0, LAMBDA a : [n |-> BigSq(a.n), d |-> BigSq(a.d)])

\* Math.hypot(dx, dy), squared.
HypotSq(dx0, dy0) ==
    With2(dx0, dy0, LAMBDA dx, dy :
    With2(BigSq(dx.d), BigSq(dy.d), LAMBDA xd, yd :
        [n |-> BigAdd(BigMul(BigSq(dx.n), yd), BigMul(BigSq(dy.n), xd)),
         d |-> BigMul(xd, yd)]))

\* a < b for fractions of big naturals
SqLess(a0, b0) == With2(a0, b0, LAMBDA a, b : BigLess(BigMul(a.n, b.d), BigMul(b.n, a.d)))

---------------------------------------------------------------------------
(* Program constants *)

\* now - t.lastSeen < 500
ExpiryWindow == 500

\* new SimpleKalmanFilter(det.box.originX, 2, 15): q of the x and y filters
PositionProcessNoise == 2

\* new SimpleKalmanFilter(det.box.width, 1, 15): q of the w and h filters
SizeProcessNoise == 1

\* r of all four filters
MeasurementNoise == 15

\* this.p = 1.0
InitialCovariance == 1

\* Math.max(tBox.width, det.box.width) * 1.5
MatchFactor == [n |-> 3, d |-> 2]

---------------------------------------------------------------------------
(* SimpleKalmanFilter *)

KalmanNew(initialValue, q, r) ==
    [x |-> initialValue, p |-> Num(InitialCovariance), q |-> q, r |-> r, k |-> Num(0)]

\* Mutant of KalmanUpdate: the predicted covariance is stored in q instead
\* of p.
KalmanUpdateOverwritesNoise(f0, m0) ==
    With2(f0, m0, LAMBDA f, measurement :
    With(RAdd(f.p, f.q), LAMBDA p1 :
    With(RDiv(p1, RAdd(p1, f.r)), LAMBDA k :
        [f EXCEPT !.q = p1,
                  !.k = k,
                  !.x = RAdd(f.x, RMul(k, RSub(measurement, f.x)))])))

\* Mutant of KalmanUpdate: two predict/correct cycles in one call.
KalmanUpdateTwice(f0, m0) ==
    With2(f0, m0, LAMBDA f, measurement :
    With(RAdd(f.p, f.q), LAMBDA p1 :
    With(RDiv(p1, RAdd(p1, f.r)), LAMBDA k :
    With2(RAdd(f.x, RMul(k, RSub(measurement, f.x))),
          RAdd(RMul(RSub(Num(1), k), p1), f.q), LAMBDA x1, p2 :
    With(RDiv(p2, RAdd(p2, f.r)), LAMBDA k2 :
        [f EXCEPT !.p = RMul(RSub(Num(1), k2), p2),
                  !.k = k2,
                  !.x = RAdd(x1, RMul(k2, RSub(measurement, x1)))])))))

\* Mutant of KalmanUpdate: the covariance is predicted but not corrected.
KalmanUpdateNoCorrection(f0, m0) ==
    With2(f0, m0, LAMBDA f, measurement :
    With(RAdd(f.p, f.q), LAMBDA p1 :
    With(RDiv(p1, RAdd(p1, f.r)), LAMBDA k :
        [f EXCEPT !.p = p1,
                  !.k = k,
                  !.x = RAdd(f.x, RMul(k, RSub(measurement, f.x)))])))

\* Mutant of KalmanUpdate: the correction is subtracted,
\* x = x - k * (measurement - x).
KalmanUpdateSubtract(f0, m0) ==
    With2(f0, m0, LAMBDA f, measurement :
    With(RAdd(f.p, f.q), LAMBDA p1 :
    With(RDiv(p1, RAdd(p1, f.r)), LAMBDA k :
        [f EXCEPT !.p = RMul(RSub(Num(1), k), p1),
                  !.k = k,
                  !.x = RSub(f.x, RMul(k, RSub(measurement, f.x)))])))

\* The filter after update(measurement); the value returned is its x.
KalmanUpdate(f0, m0) ==
    With2(f0, m0, LAMBDA f, measurement :
    With(RAdd(f.p, f.q), LAMBDA p1 :
    With(RDiv(p1, RAdd(p1, f.r)), LAMBDA k :
        [f EXCEPT !.p = RMul(RSub(Num(1), k), p1),
                  !.k = k,
                  !.x = RAdd(f.x, RMul(k, RSub(measurement, f.x)))])))

---------------------------------------------------------------------------
(* The detector's result and its normalisation *)

\* opt ?? default, for an optional value: <<>> is undefined, <<v>> is v.
Coalesce(opt0, default) == With(opt0, LAMBDA opt : IF opt = <<>> THEN default ELSE opt[1])

\* det.boundingBox?.f
BoxField(det, f) == IF det.boundingBox = <<>> THEN <<>> ELSE det.boundingBox[1][f]

Normalize(det) ==
    [score |-> det.categories[1].score,
     box   |-> [originX |-> Coalesce(BoxField(det, "originX"), Num(0)),
                originY |-> Coalesce(BoxField(det, "originY"), Num(0)),
                width   |-> Coalesce(BoxField(det, "width"), Num(0)),
                height  |-> Coalesce(BoxField(det, "height"), Num(0))]]

\* Mutant of MapNormalize: detections without boundingBox are filtered out.
MapNormalizeDropBoxless(ds0) ==
    With(SelectSeq(ds0, LAMBDA det : det.boundingBox # <<>>), LAMBDA ds :
        [i \in DOMAIN ds |-> Normalize(ds[i])])

\* detections.detections.map(det => ...)
MapNormalize(ds0) == With(ds0, LAMBDA ds : [i \in DOMAIN ds |-> Normalize(ds[i])])

---------------------------------------------------------------------------
(* One tracked frame: prune, match, update, spawn *)

\* `${n}`
IdOf(n) == ToString(n)

\* Mutant of Prune: `<=` for `<`, a track seen exactly 500 ms ago is kept.
PruneInclusive(ts, now0) ==
    With(now0, LAMBDA now : SelectSeq(ts, LAMBDA t : now - t.lastSeen <= ExpiryWindow))

\* Mutant of Prune: a track is dropped after half the expiry window.
PruneHalfWindow(ts, now0) ==
    With(now0, LAMBDA now : SelectSeq(ts, LAMBDA t : 2 * (now - t.lastSeen) < ExpiryWindow))

\* trackedFacesRef.current.filter(t => now - t.lastSeen < 500)
Prune(ts, now0) ==
    With(now0, LAMBDA now : SelectSeq(ts, LAMBDA t : now - t.lastSeen < ExpiryWindow))

CentreX(box0) == With(box0, LAMBDA box : RAdd(box.originX, RDiv(box.width, Num(2))))
CentreY(box0) == With(box0, LAMBDA box : RAdd(box.originY, RDiv(box.height, Num(2))))

\* Math.hypot(dCx - tCx, dCy - tCy), squared
Dist(tBox0, dBox0) ==
    With2(tBox0, dBox0, LAMBDA tBox, dBox :
        HypotSq(RSub(CentreX(dBox), CentreX(tBox)), RSub(CentreY(dBox), CentreY(tBox))))

\* Math.max(tBox.width, det.box.width) * 1.5
Threshold(tBox, dBox) == RMul(RMax(tBox.width, dBox.width), MatchFactor)

\* Mutant of WithinThreshold: `<=` for `<`, a detection at the threshold
\* distance is within reach.
WithinThresholdInclusive(dist, threshold0) ==
    With(threshold0, LAMBDA threshold :
        threshold.n >= 0 /\ ~SqLess(SqOf(threshold), dist))

\* dist < threshold (dist is a squared distance, threshold is not squared)
WithinThreshold(dist, threshold0) ==
    With(threshold0, LAMBDA threshold : threshold.n > 0 /\ SqLess(dist, SqOf(threshold)))

\* Mutant of Closer: `dist < bestDist` is only tested against Infinity, the
\* first detection within its threshold wins.
CloserFirst(dist, bestIdx, bestDist) == bestIdx = 0

\* dist < bestDist, where bestIdx = 0 stands for bestDist = Infinity
Closer(dist, bestIdx, bestDist) == bestIdx = 0 \/ SqLess(dist, bestDist)

\* rawDetections.forEach((det, idx) => ...) of one track, from detection idx
\* on: the final bestIdx (0 for the code's -1).
RECURSIVE ScanDetections(_, _, _, _, _, _)
ScanDetections(tBox, dets, used, idx0, bestIdx0, bestDist0) ==
    With3(idx0, bestIdx0, bestDist0, LAMBDA idx, bestIdx, bestDist :
        IF idx > Len(dets) THEN bestIdx
        ELSE IF idx \in used
             THEN ScanDetections(tBox, dets, used, idx + 1, bestIdx, bestDist)
             ELSE With2(Dist(tBox, dets[idx].box), Threshold(tBox, dets[idx].box),
                        LAMBDA dist, threshold :
                      IF WithinThreshold(dist, threshold) /\ Closer(dist, bestIdx, bestDist)
                      THEN ScanDetections(tBox, dets, used, idx + 1, idx, dist)
                      ELSE ScanDetections(tBox, dets, used, idx + 1, bestIdx, bestDist)))

\* Mutant of BestIdx: usedDetectionIndices is not consulted.
BestIdxIgnoreUsed(track, dets0, used0) ==
    With2(track.currentBox, dets0, LAMBDA tBox, dets :
        ScanDetections(tBox, dets, {}, 1, 0, <<>>))

BestIdx(track, dets0, used0) ==
    With3(track.currentBox, dets0, used0, LAMBDA tBox, dets, used :
        ScanDetections(tBox, dets, used, 1, 0, <<>>))

\* Mutant of UpdateTrack: track.lastSeen = now is left out.
UpdateTrackKeepLastSeen(track0, match0, now) ==
    With2(track0, match0, LAMBDA track, match :
    With2(KalmanUpdate(track.filters.x, match.box.originX),
          KalmanUpdate(track.filters.y, match.box.originY), LAMBDA fx, fy :
    With2(KalmanUpdate(track.filters.w, match.box.width),
          KalmanUpdate(track.filters.h, match.box.height), LAMBDA fw, fh :
        [id         |-> track.id,
         lastSeen   |-> track.lastSeen,
         filters    |-> [x |-> fx, y |-> fy, w |-> fw, h |-> fh],
         score      |-> match.score,
         currentBox |-> [originX |-> fx.x, originY |-> fy.x,
                         width |-> fw.x, height |-> fh.x]])))

\* Mutant of UpdateTrack: lastSeen is set back by the expiry window instead
\* of being set to now.
UpdateTrackEarlierLastSeen(track0, match0, now) ==
    With2(track0, match0, LAMBDA track, match :
    With2(KalmanUpdate(track.filters.x, match.box.originX),
          KalmanUpdate(track.filters.y, match.box.originY), LAMBDA fx, fy :
    With2(KalmanUpdate(track.filters.w, match.box.width),
          KalmanUpdate(track.filters.h, match.box.height), LAMBDA fw, fh :
        [id         |-> track.id,
         lastSeen   |-> track.lastSeen - ExpiryWindow,
         filters    |-> [x |-> fx, y |-> fy, w |-> fw, h |-> fh],
         score      |-> match.score,
         currentBox |-> [originX |-> fx.x, originY |-> fy.x,
                         width |-> fw.x, height |-> fh.x]])))

\* Mutant of UpdateTrack: currentBox is the raw box of the match, not the
\* filters' output.
UpdateTrackRaw(track0, match0, now) ==
    With2(track0, match0, LAMBDA track, match :
        [id         |-> track.id,
         lastSeen   |-> now,
         filters    |-> [x |-> KalmanUpdate(track.filters.x, match.box.originX),
                         y |-> KalmanUpdate(track.filters.y, match.box.originY),
                         w |-> KalmanUpdate(track.filters.w, match.box.width),
                         h |-> KalmanUpdate(track.filters.h, match.box.height)],
         score      |-> match.score,
         currentBox |-> match.box])

\* The track after the "Matched" branch.
UpdateTrack(track0, match0, now) ==
    With2(track0, match0, LAMBDA track, match :
    With2(KalmanUpdate(track.filters.x, match.box.originX),
          KalmanUpdate(track.filters.y, match.box.originY), LAMBDA fx, fy :
    With2(KalmanUpdate(track.filters.w, match.box.width),
          KalmanUpdate(track.filters.h, match.box.height), LAMBDA fw, fh :
        [id         |-> track.id,
         lastSeen   |-> now,
         filters    |-> [x |-> fx, y |-> fy, w |-> fw, h |-> fh],
         score      |-> match.score,
         currentBox |-> [originX |-> fx.x, originY |-> fy.x,
                         width |-> fw.x, height |-> fh.x]])))

\* activeFaces.push({id: track.id, boundingBox: track.currentBox, score: track.score})
FaceOf(track0) ==
    With(track0, LAMBDA track :
        [id |-> track.id, boundingBox |-> track.currentBox, score |-> track.score])

\* Mutant of MatchTracks: activeFaces.unshift for activeFaces.push.
RECURSIVE MatchTracksUnshift(_, _, _, _, _)
MatchTracksUnshift(ts, i0, dets, now, acc0) ==
    With2(i0, acc0, LAMBDA i, acc :
        IF i > Len(ts) THEN acc
        ELSE With(BestIdx(ts[i], dets, acc.used), LAMBDA bestIdx :
                 IF bestIdx # 0
                 THEN With(UpdateTrack(ts[i], dets[bestIdx], now), LAMBDA t :
                          MatchTracksUnshift(ts, i + 1, dets, now,
                              [tracks |-> Append(acc.tracks, t),
                               used   |-> acc.used \cup {bestIdx},
                               faces  |-> <<FaceOf(t)>> \o acc.faces,
                               pairs  |-> Append(acc.pairs, <<i, bestIdx>>)]))
                 ELSE MatchTracksUnshift(ts, i + 1, dets, now,
                          [acc EXCEPT !.tracks = Append(acc.tracks, ts[i])])))

\* Mutant of MatchTracks: the score of a track that is not matched is set
\* to 0.
RECURSIVE MatchTracksClearsScore(_, _, _, _, _)
MatchTracksClearsScore(ts, i0, dets, now, acc0) ==
    With2(i0, acc0, LAMBDA i, acc :
        IF i > Len(ts) THEN acc
        ELSE With(BestIdx(ts[i], dets, acc.used), LAMBDA bestIdx :
                 IF bestIdx # 0
                 THEN With(UpdateTrack(ts[i], dets[bestIdx], now), LAMBDA t :
                          MatchTracksClearsScore(ts, i + 1, dets, now,
                              [tracks |-> Append(acc.tracks, t),
                               used   |-> acc.used \cup {bestIdx},
                               faces  |-> Append(acc.faces, FaceOf(t)),
                               pairs  |-> Append(acc.pairs, <<i, bestIdx>>)]))
                 ELSE MatchTracksClearsScore(ts, i + 1, dets, now,
                          [acc EXCEPT !.tracks =
                              Append(acc.tracks, [ts[i] EXCEPT !.score = Num(0)])])))

\* Mutant of MatchTracks: the tracks are visited from the last to the first.
RECURSIVE MatchTracksLastFirst(_, _, _, _, _)
MatchTracksLastFirst(ts, i0, dets, now, acc0) ==
    With2(i0, acc0, LAMBDA i, acc :
        IF i > Len(ts) THEN acc
        ELSE With2(Len(ts) + 1 - i, BestIdx(ts[Len(ts) + 1 - i], dets, acc.used),
                   LAMBDA j, bestIdx :
                 IF bestIdx # 0
                 THEN With(UpdateTrack(ts[j], dets[bestIdx], now), LAMBDA t :
                          MatchTracksLastFirst(ts, i + 1, dets, now,
                              [tracks |-> <<t>> \o acc.tracks,
                               used   |-> acc.used \cup {bestIdx},
                               faces  |-> Append(acc.faces, FaceOf(t)),
                               pairs  |-> Append(acc.pairs, <<j, bestIdx>>)]))
                 ELSE MatchTracksLastFirst(ts, i + 1, dets, now,
                          [acc EXCEPT !.tracks = <<ts[j]>> \o acc.tracks])))

\* trackedFacesRef.current.forEach(track => ...), from track i on: acc holds
\* the tracks already visited, usedDetectionIndices, activeFaces and the pairs
\* <<track index, detection index>> matched so far.
RECURSIVE MatchTracks(_, _, _, _, _)
MatchTracks(ts, i0, dets, now, acc0) ==
    With2(i0, acc0, LAMBDA i, acc :
        IF i > Len(ts) THEN acc
        ELSE With(BestIdx(ts[i], dets, acc.used), LAMBDA bestIdx :
                 IF bestIdx # 0
                 THEN With(UpdateTrack(ts[i], dets[bestIdx], now), LAMBDA t :
                          MatchTracks(ts, i + 1, dets, now,
                              [tracks |-> Append(acc.tracks, t),
                               used   |-> acc.used \cup {bestIdx},
                               faces  |-> Append(acc.faces, FaceOf(t)),
                               pairs  |-> Append(acc.pairs, <<i, bestIdx>>)]))
                 ELSE MatchTracks(ts, i + 1, dets, now,
                          [acc EXCEPT !.tracks = Append(acc.tracks, ts[i])])))

\* Mutant of NewFilters: the filters are constructed and not updated.
NewFiltersNoWarmUp(box0) ==
    With(box0, LAMBDA box :
        [x |-> KalmanNew(box.originX, Num(PositionProcessNoise), Num(MeasurementNoise)),
         y |-> KalmanNew(box.originY, Num(PositionProcessNoise), Num(MeasurementNoise)),
         w |-> KalmanNew(box.width, Num(SizeProcessNoise), Num(MeasurementNoise)),
         h |-> KalmanNew(box.height, Num(SizeProcessNoise), Num(MeasurementNoise))])

\* The filters of a new track, after their initial update.
NewFilters(box0) ==
    With(box0, LAMBDA box :
        [x |-> KalmanUpdate(KalmanNew(box.originX, Num(PositionProcessNoise),
                                      Num(MeasurementNoise)), box.originX),
         y |-> KalmanUpdate(KalmanNew(box.originY, Num(PositionProcessNoise),
                                      Num(MeasurementNoise)), box.originY),
         w |-> KalmanUpdate(KalmanNew(box.width, Num(SizeProcessNoise),
                                      Num(MeasurementNoise)), box.width),
         h |-> KalmanUpdate(KalmanNew(box.height, Num(SizeProcessNoise),
                                      Num(MeasurementNoise)), box.height)])

NewTrack(det0, newId, now) ==
    With(det0, LAMBDA det :
        [id         |-> newId,
         lastSeen   |-> now,
         filters    |-> NewFilters(det.box),
         score      |-> det.score,
         currentBox |-> det.box])

\* Mutant of SpawnTracks: nextFaceIdRef.current is read but not incremented.
RECURSIVE SpawnTracksNoIncrement(_, _, _, _, _)
SpawnTracksNoIncrement(dets, idx0, used, now, acc0) ==
    With2(idx0, acc0, LAMBDA idx, acc :
        IF idx > Len(dets) THEN acc
        ELSE IF idx \in used THEN SpawnTracksNoIncrement(dets, idx + 1, used, now, acc)
        ELSE With(IdOf(acc.nextFaceId), LAMBDA newId :
                 SpawnTracksNoIncrement(dets, idx + 1, used, now,
                     [tracks     |-> Append(acc.tracks, NewTrack(dets[idx], newId, now)),
                      nextFaceId |-> acc.nextFaceId,
                      faces      |-> Append(acc.faces,
                                        [id |-> newId, boundingBox |-> dets[idx].box,
                                         score |-> dets[idx].score]),
                      spawned    |-> Append(acc.spawned, idx)])))

\* Mutant of SpawnTracks: `++nextFaceIdRef.current` for
\* `nextFaceIdRef.current++`, the id is the counter after the increment.
RECURSIVE SpawnTracksPreIncrement(_, _, _, _, _)
SpawnTracksPreIncrement(dets, idx0, used, now, acc0) ==
    With2(idx0, acc0, LAMBDA idx, acc :
        IF idx > Len(dets) THEN acc
        ELSE IF idx \in used THEN SpawnTracksPreIncrement(dets, idx + 1, used, now, acc)
        ELSE With(IdOf(acc.nextFaceId + 1), LAMBDA newId :
                 SpawnTracksPreIncrement(dets, idx + 1, used, now,
                     [tracks     |-> Append(acc.tracks, NewTrack(dets[idx], newId, now)),
                      nextFaceId |-> acc.nextFaceId + 1,
                      faces      |-> Append(acc.faces,
                                        [id |-> newId, boundingBox |-> dets[idx].box,
                                         score |-> dets[idx].score]),
                      spawned    |-> Append(acc.spawned, idx)])))

\* rawDetections.forEach((det, idx) => ...) of the spawn step, from detection
\* idx on: acc holds the track store, the counter, activeFaces and the indices
\* of the detections that spawned a track so far.
RECURSIVE SpawnTracks(_, _, _, _, _)
SpawnTracks(dets, idx0, used, now, acc0) ==
    With2(idx0, acc0, LAMBDA idx, acc :
        IF idx > Len(dets) THEN acc
        ELSE IF idx \in used THEN SpawnTracks(dets, idx + 1, used, now, acc)
        ELSE With(IdOf(acc.nextFaceId), LAMBDA newId :
                 SpawnTracks(dets, idx + 1, used, now,
                     [tracks     |-> Append(acc.tracks, NewTrack(dets[idx], newId, now)),
                      nextFaceId |-> acc.nextFaceId + 1,
                      faces      |-> Append(acc.faces,
                                        [id |-> newId, boundingBox |-> dets[idx].box,
                                         score |-> dets[idx].score]),
                      spawned    |-> Append(acc.spawned, idx)])))

\* Mutant of TrackFrame: the prune step is skipped in a frame without
\* detections.
TrackFramePruneOnDetection(ts0, nid0, result, now0) ==
    With3(ts0, nid0, now0, LAMBDA ts, nid, now :
    With2(MapNormalize(result.detections),
          IF result.detections = <<>> THEN ts ELSE Prune(ts, now),
          LAMBDA rawDetections, live :
    With(MatchTracks(live, 1, rawDetections, now,
             [tracks |-> <<>>, used |-> {}, faces |-> <<>>, pairs |-> <<>>]), LAMBDA m :
    With(SpawnTracks(rawDetections, 1, m.used, now,
             [tracks |-> m.tracks, nextFaceId |-> nid, faces |-> m.faces,
              spawned |-> <<>>]), LAMBDA s :
        [tracks     |-> s.tracks,
         nextFaceId |-> s.nextFaceId,
         faces      |-> s.faces,
         frame      |-> [now     |-> now,
                         raw     |-> result.detections,
                         dets    |-> rawDetections,
                         before  |-> ts,
                         firstId |-> nid,
                         live    |-> live,
                         pairs   |-> m.pairs,
                         used    |-> m.used,
                         spawned |-> s.spawned]]))))

\* Mutant of TrackFrame: the face list is published after the matched
\* updates, before the unmatched detections have spawned their tracks.
TrackFramePublishBeforeSpawn(ts0, nid0, result, now0) ==
    With3(ts0, nid0, now0, LAMBDA ts, nid, now :
    With2(MapNormalize(result.detections), Prune(ts, now), LAMBDA rawDetections, live :
    With(MatchTracks(live, 1, rawDetections, now,
             [tracks |-> <<>>, used |-> {}, faces |-> <<>>, pairs |-> <<>>]), LAMBDA m :
    With(SpawnTracks(rawDetections, 1, m.used, now,
             [tracks |-> m.tracks, nextFaceId |-> nid, faces |-> m.faces,
              spawned |-> <<>>]), LAMBDA s :
        [tracks     |-> s.tracks,
         nextFaceId |-> s.nextFaceId,
         faces      |-> m.faces,
         frame      |-> [now     |-> now,
                         raw     |-> result.detections,
                         dets    |-> rawDetections,
                         before  |-> ts,
                         firstId |-> nid,
                         live    |-> live,
                         pairs   |-> m.pairs,
                         used    |-> m.used,
                         spawned |-> s.spawned]]))))

\* The body of `if (detections && detections.detections)`: the new tracks,
\* counter and face list, and the frame's locals.
TrackFrame(ts0, nid0, result, now0) ==
    With3(ts0, nid0, now0, LAMBDA ts, nid, now :
    With2(MapNormalize(result.detections), Prune(ts, now), LAMBDA rawDetections, live :
    With(MatchTracks(live, 1, rawDetections, now,
             [tracks |-> <<>>, used |-> {}, faces |-> <<>>, pairs |-> <<>>]), LAMBDA m :
    With(SpawnTracks(rawDetections, 1, m.used, now,
             [tracks |-> m.tracks, nextFaceId |-> nid, faces |-> m.faces,
              spawned |-> <<>>]), LAMBDA s :
        [tracks     |-> s.tracks,
         nextFaceId |-> s.nextFaceId,
         faces      |-> s.faces,
         frame      |-> [now     |-> now,
                         raw     |-> result.detections,
                         dets    |-> rawDetections,
                         before  |-> ts,
                         firstId |-> nid,
                         live    |-> live,
                         pairs   |-> m.pairs,
                         used    |-> m.used,
                         spawned |-> s.spawned]]))))

---------------------------------------------------------------------------
(* DomeGallery: the grid of tiles and the faces shown in them *)

\* DEFAULTS.segments
Segments == 35

\* Array.from({ length: seg }, (_, i) => -37 + i * 2)
XCols(seg0) == [i \in 1..seg0 |-> -37 + (i - 1) * 2]

EvenYs == <<-4, -2, 0, 2, 4>>

OddYs == <<-3, -1, 1, 3, 5>>

\* xCols.flatMap((x, c) => ys.map(y => ({ x, y, sizeX: 2, sizeY: 2 })))
Coords(seg0) ==
    [j \in 1..(5 * seg0) |->
        [x     |-> XCols(seg0)[((j - 1) \div 5) + 1],
         y     |-> IF ((j - 1) \div 5) % 2 = 0 THEN EvenYs[((j - 1) % 5) + 1]
                                               ELSE OddYs[((j - 1) % 5) + 1],
         sizeX |-> 2,
         sizeY |-> 2]]

\* Math.abs(a.x) + Math.abs(a.y)
Manhattan(c) == Abs(c.x) + Abs(c.y)

RECURSIVE SortFrom(_, _, _)
\* The elements of cs at distance d or more, up to distance last, by
\* distance, those at the same distance in the order they have in cs.
SortFrom(cs, d, last) ==
    IF d > last THEN <<>>
    ELSE SelectSeq(cs, LAMBDA c : Manhattan(c) = d) \o SortFrom(cs, d + 1, last)

\* The largest distance of the elements of cs, 0 if there is none.
MaxDistance(cs) ==
    IF cs = <<>> THEN 0
    ELSE With({Manhattan(cs[i]) : i \in DOMAIN cs}, LAMBDA ds :
             CHOOSE d \in ds : \A e \in ds : e <= d)

\* Mutant of SortByDistance: the coordinates are left in grid order.
SortByDistanceNone(coords0) == coords0

\* coords.sort((a, b) => distA - distB): Array.prototype.sort is stable.
SortByDistance(coords0) ==
    With(coords0, LAMBDA coords :
        SortFrom(coords, 0, MaxDistance(coords)))

\* Mutant of BuildItems: the pool is repeated over the slots, face pool[i %
\* pool.length].
BuildItemsRepeat(pool0, seg0) ==
    With2(pool0, SortByDistance(Coords(seg0)), LAMBDA faces0, coords :
        [i \in 1..Len(coords) |->
            [x     |-> coords[i].x,
             y     |-> coords[i].y,
             sizeX |-> coords[i].sizeX,
             sizeY |-> coords[i].sizeY,
             index |-> i - 1,
             face  |-> IF faces0 # <<>> THEN <<faces0[((i - 1) % Len(faces0)) + 1]>>
                                        ELSE <<>>]])

\* buildItems(pool, seg); a face of null is <<>>, a face f is <<f>>, and the
\* item of index i is the (i + 1)-th of the sequence.
BuildItems(pool0, seg0) ==
    With2(pool0, SortByDistance(Coords(seg0)), LAMBDA faces0, coords :
        [i \in 1..Len(coords) |->
            [x     |-> coords[i].x,
             y     |-> coords[i].y,
             sizeX |-> coords[i].sizeX,
             sizeY |-> coords[i].sizeY,
             index |-> i - 1,
             face  |-> IF i - 1 < Len(faces0) THEN <<faces0[i]>> ELSE <<>>]])

---------------------------------------------------------------------------
(* Inputs: what the detector can return for a frame *)

Box(x, y, w, h) ==
    <<[originX |-> <<Num(x)>>, originY |-> <<Num(y)>>,
       width |-> <<Num(w)>>, height |-> <<Num(h)>>]>>

Detection(box, score) == [categories |-> <<[score |-> score]>>, boundingBox |-> box]

\* a face, centre (125, 125)
FaceA == Detection(Box(100, 100, 50, 50), R(9, 10))
\* a small face next to it, centre (115, 110)
FaceB == Detection(Box(110, 105, 10, 10), R(4, 5))
\* a face out of reach of both, centre (205, 125): 80 from FaceA, over 50 * 1.5
FaceC == Detection(Box(180, 100, 50, 50), R(7, 10))
\* a wide box over FaceA and FaceC, centre (164, 125)
FaceWide == Detection(Box(0, 100, 328, 50), R(3, 4))
\* a detection whose box has no width and no height, at (130, 110)
FaceNoSize ==
    Detection(<<[originX |-> <<Num(130)>>, originY |-> <<Num(110)>>,
                 width |-> <<>>, height |-> <<>>]>>, R(3, 5))
\* a detection with no boundingBox
FaceNoBox == Detection(<<>>, R(1, 2))

\* The detection lists the detector returns for a frame.
DetectionLists ==
    {<<>>,
     <<FaceA>>, <<FaceB>>, <<FaceNoBox>>, <<FaceWide>>,
     <<FaceA, FaceB>>, <<FaceB, FaceA>>,
     <<FaceA, FaceC>>,
     <<FaceNoSize, FaceA>>}

DetectorResults == {[detections |-> ds] : ds \in DetectionLists}

\* The time between two frames the video presents, in ms.
FrameGaps == {250, 500}

---------------------------------------------------------------------------
(* The state machine *)

NoFrame ==
    [session |-> 0, now |-> 0, raw |-> <<>>, dets |-> <<>>, before |-> <<>>,
     firstId |-> 1, live |-> <<>>, pairs |-> <<>>, used |-> {}, spawned |-> <<>>]

\* No filter on its own.
NoFilter ==
    /\ filter = KalmanNew(Num(0), Num(PositionProcessNoise), Num(MeasurementNoise))
    /\ measured = <<>>
    /\ returned = Num(0)

\* No DomeGallery on its own.
NoDome ==
    /\ pool = <<>>
    /\ seg = 0
    /\ items = <<>>

\* A video element without source and without onloadedmetadata handler.
NoVideo == [source |-> 0, kind |-> "none", metadata |-> "none", handler |-> FALSE,
            reset |-> FALSE]

\* No setup effect on its own.
NoSetup ==
    /\ setups = <<>>
    /\ video = NoVideo
    /\ loops = {}
    /\ animationFrame = 0
    /\ detectors = 0

\* In the App the filters belong to the tracks and the DomeGallery is handed
\* the face list: the filter and the gallery on their own are idle; one
\* setup runs at a time, and its steps are those of initializeFaceDetector
\* and the loadedmetadata handler.
NoUnit == NoFilter /\ NoDome /\ NoSetup

Init ==
    /\ tracks = <<>>
    /\ nextFaceId = 1
    /\ faces = <<>>
    /\ lastVideoTime = -1
    /\ faceDetector = FALSE
    /\ init = "idle"
    /\ clock = 0
    /\ videoTime = 0
    /\ playing = FALSE
    /\ session = 0
    /\ lastFrame = NoFrame
    /\ expired = {}
    /\ issued = <<>>
    /\ timestamps = <<>>
    /\ NoUnit

Ids(ts) == {ts[i].id : i \in DOMAIN ts}

\* The tracks of ts that are no longer in live, as records of the history.
Removed(ts, live, sess) ==
    {[session |-> sess, id |-> ts[i].id, box |-> ts[i].currentBox] :
        i \in {i \in DOMAIN ts : ts[i].id \notin Ids(live)}}

\* The ids of the tracks a frame appended to the store, in store order.
SpawnedIds(f) ==
    [k \in 1..(Len(f.tracks) - Len(f.frame.live)) |-> f.tracks[Len(f.frame.live) + k].id]

\* The timestamps tracked so far in session sess, which is the current one
\* or the one that begins.
TimestampsOf(sess) == IF sess = session THEN timestamps ELSE <<>>

\* Mutant of LoopBody: video.currentTime is not compared with
\* lastVideoTimeRef.current, every tick of a playing video is tracked.
LoopBodyEveryTick(ts, nid, iss, isPlaying, vt, sess) ==
    IF isPlaying
    THEN /\ lastVideoTime' = vt
         /\ \E result \in DetectorResults :
               \E f \in {TrackFrame(ts, nid, result, clock)} :
                   /\ tracks' = f.tracks
                   /\ nextFaceId' = f.nextFaceId
                   /\ faces' = f.faces
                   /\ lastFrame' = [session |-> sess] @@ f.frame
                   /\ expired' = expired \cup Removed(ts, f.frame.live, sess)
                   /\ issued' = iss \o SpawnedIds(f)
                   /\ timestamps' = Append(TimestampsOf(sess), vt)
    ELSE /\ tracks' = ts
         /\ nextFaceId' = nid
         /\ issued' = iss
         /\ timestamps' = TimestampsOf(sess)
         /\ UNCHANGED <<faces, lastVideoTime, lastFrame, expired>>

\* loop(), entered with track store ts, counter nid and a video that is
\* playing or not at time vt, in session sess (iss: the ids issued in it so
\* far).  detectForVideo returns one of DetectorResults for the frame.  The
\* requestAnimationFrame that ends loop() keeps the loop alive.
LoopBody(ts, nid, iss, isPlaying, vt, sess) ==
    IF isPlaying /\ vt # lastVideoTime
    THEN /\ lastVideoTime' = vt
         /\ IF faceDetector
            THEN \E result \in DetectorResults :
                    \E f \in {TrackFrame(ts, nid, result, clock)} :
                        /\ tracks' = f.tracks
                        /\ nextFaceId' = f.nextFaceId
                        /\ faces' = f.faces
                        /\ lastFrame' = [session |-> sess] @@ f.frame
                        /\ expired' = expired \cup Removed(ts, f.frame.live, sess)
                        /\ issued' = iss \o SpawnedIds(f)
                        /\ timestamps' = Append(TimestampsOf(sess), vt)
            ELSE /\ tracks' = ts
                 /\ nextFaceId' = nid
                 /\ issued' = iss
                 /\ timestamps' = TimestampsOf(sess)
                 /\ UNCHANGED <<faces, lastFrame, expired>>
    ELSE /\ tracks' = ts
         /\ nextFaceId' = nid
         /\ issued' = iss
         /\ timestamps' = TimestampsOf(sess)
         /\ UNCHANGED <<faces, lastVideoTime, lastFrame, expired>>

\* initializeFaceDetector is called with faceDetector null (the first run of
\* the setup effect, or a later run after a rejection): the fileset
\* resolves and the creation with the GPU delegate is awaited.  A call with
\* a detector present returns at once and changes nothing.
InitializeFaceDetector ==
    /\ ~faceDetector
    /\ init \in {"idle", "rejected"}
    /\ init' = "GPU"
    /\ UNCHANGED <<trackerVars, faceDetector, clock, videoTime, playing, session,
                   histVars, unitVars>>

\* Mutant of CreateGPU: no catch block, the call rejects when the creation
\* with the GPU delegate throws.
CreateGPUNoFallback ==
    /\ init = "GPU"
    /\ \E created \in BOOLEAN :
          IF created THEN faceDetector' = TRUE /\ init' = "createdGPU"
                     ELSE faceDetector' = faceDetector /\ init' = "rejected"
    /\ UNCHANGED <<trackerVars, clock, videoTime, playing, session, histVars, unitVars>>

\* FaceDetector.createFromOptions with delegate "GPU" settles: the detector
\* is assigned, or the creation throws and the catch block awaits the
\* creation with the CPU delegate.
CreateGPU ==
    /\ init = "GPU"
    /\ \E created \in BOOLEAN :
          IF created THEN faceDetector' = TRUE /\ init' = "createdGPU"
                     ELSE faceDetector' = faceDetector /\ init' = "CPU"
    /\ UNCHANGED <<trackerVars, clock, videoTime, playing, session, histVars, unitVars>>

\* FaceDetector.createFromOptions with delegate "CPU" settles: the detector
\* is assigned, or the creation throws out of the catch block and the call
\* rejects.
CreateCPU ==
    /\ init = "CPU"
    /\ \E created \in BOOLEAN :
          IF created THEN faceDetector' = TRUE /\ init' = "createdCPU"
                     ELSE faceDetector' = faceDetector /\ init' = "rejected"
    /\ UNCHANGED <<trackerVars, clock, videoTime, playing, session, histVars, unitVars>>

\* initializeFaceDetector returns after the assignment: the call resolves
\* and setup goes on to setupSource.
InitializeResolved ==
    /\ init \in {"createdGPU", "createdCPU"}
    /\ init' = "resolved"
    /\ UNCHANGED <<trackerVars, faceDetector, clock, videoTime, playing, session,
                   histVars, unitVars>>

\* Mutant of LoadedMetadata: the two lines that reset tracking are left out.
LoadedMetadataNoReset ==
    /\ faceDetector
    /\ init = "resolved"
    /\ session < MaxSessions
    /\ session' = session + 1
    /\ videoTime' = 0
    /\ \E allowed \in BOOLEAN :
          /\ playing' = allowed
          /\ LoopBody(tracks, nextFaceId, <<>>, allowed, 0, session + 1)
    /\ UNCHANGED <<faceDetector, init, clock, unitVars>>

\* videoRef.current.onloadedmetadata: the new source starts at time 0, play()
\* is allowed or blocked, tracking is reset and startDetectionLoop() runs
\* loop() once at once.  The handler is installed by setupSource, which runs
\* only after initializeFaceDetector has resolved.
LoadedMetadata ==
    /\ faceDetector
    /\ init = "resolved"
    /\ session < MaxSessions
    /\ session' = session + 1
    /\ videoTime' = 0
    /\ \E allowed \in BOOLEAN :
          /\ playing' = allowed
          /\ LoopBody(<<>>, 1, <<>>, allowed, 0, session + 1)
    /\ UNCHANGED <<faceDetector, init, clock, unitVars>>

\* One requestAnimationFrame callback of the running loop.
Loop ==
    /\ session >= 1
    /\ LoopBody(tracks, nextFaceId, issued, playing, videoTime, session)
    /\ UNCHANGED <<envVars, unitVars>>

\* Time passes; a playing video presents its next frame.  The clock counts
\* from the first loadedmetadata event.
Present ==
    \E gap \in FrameGaps :
        /\ session >= 1
        /\ clock + gap <= MaxClock
        /\ clock' = clock + gap
        /\ videoTime' = IF playing THEN videoTime + gap ELSE videoTime
        /\ UNCHANGED <<trackerVars, faceDetector, init, playing, session, histVars, unitVars>>

\* The video is paused or ends.
VideoPause ==
    /\ session >= 1
    /\ playing
    /\ playing' = FALSE
    /\ UNCHANGED <<trackerVars, faceDetector, init, clock, videoTime, session, histVars, unitVars>>

\* The video resumes.
VideoPlay ==
    /\ session >= 1
    /\ ~playing
    /\ playing' = TRUE
    /\ UNCHANGED <<trackerVars, faceDetector, init, clock, videoTime, session, histVars, unitVars>>

\* Time passes; an uploaded video (loop = true) reaches its end and starts
\* over at time 0.
VideoLoop ==
    \E gap \in FrameGaps :
        /\ session >= 1
        /\ playing
        /\ videoTime > 0
        /\ clock + gap <= MaxClock
        /\ clock' = clock + gap
        /\ videoTime' = 0
        /\ UNCHANGED <<trackerVars, faceDetector, init, playing, session, histVars, unitVars>>

Next ==
    \/ InitializeFaceDetector
    \/ CreateGPU
    \/ CreateCPU
    \/ InitializeResolved
    \/ LoadedMetadata
    \/ Loop
    \/ Present
    \/ VideoPause
    \/ VideoPlay
    \/ VideoLoop

Spec == Init /\ [][Next]_vars

---------------------------------------------------------------------------
(* The loop driven with or without a detector.  detectFaces is exported   *)
(* and returns null while faceDetector is null; the App starts the loop   *)
(* only after initializeFaceDetector has resolved, so Spec never runs the *)
(* loop without a detector.  LoopSpec runs loop() from a store that a     *)
(* first frame at time 0 has filled, with the detector present or absent. *)

LoopInit ==
    \E ds \in {<<>>, <<FaceA>>, <<FaceA, FaceB>>} :
        \E f \in {TrackFrame(<<>>, 1, [detections |-> ds], 0)} :
            /\ tracks = f.tracks
            /\ nextFaceId = f.nextFaceId
            /\ faces = f.faces
            /\ lastVideoTime = 0
            /\ faceDetector \in BOOLEAN
            /\ init = IF faceDetector THEN "resolved" ELSE "idle"
            /\ clock = 0
            /\ videoTime = 0
            /\ playing = TRUE
            /\ session = 1
            /\ lastFrame = [session |-> 1] @@ f.frame
            /\ expired = {}
            /\ issued = SpawnedIds(f)
            /\ timestamps = <<0>>
            /\ NoUnit

LoopNext ==
    \/ Loop
    \/ Present
    \/ VideoPause
    \/ VideoPlay

LoopSpec == LoopInit /\ [][LoopNext]_vars

---------------------------------------------------------------------------
(* The loop at a higher frame rate: three frames within the expiry window, *)
(* so that a track can be left unmatched by a frame and matched by the     *)
(* next one before it expires.  AgingSpec starts as LoopSpec does.         *)

\* The time between two frames.
ShortGaps == {125}

\* The time of the last frame.
MaxShortClock == 250

\* Time passes; a playing video presents its next frame.
PresentShort ==
    \E gap \in ShortGaps :
        /\ session >= 1
        /\ clock + gap <= MaxShortClock
        /\ clock' = clock + gap
        /\ videoTime' = IF playing THEN videoTime + gap ELSE videoTime
        /\ UNCHANGED <<trackerVars, faceDetector, init, playing, session, histVars, unitVars>>

AgingNext ==
    \/ Loop
    \/ PresentShort
    \/ VideoPause
    \/ VideoPlay

AgingSpec == LoopInit /\ [][AgingNext]_vars

---------------------------------------------------------------------------
(* The setup effect with its awaits.  The effect runs at mount and again   *)
(* whenever sourceType, uploadedVideoUrl or selectedDeviceId changes; the  *)
(* settings are open to the user while a setup is still awaiting, and a    *)
(* run that was cleaned up goes on after its awaits.  SetupSpec runs       *)
(* up to MaxRuns setups, each from its call to initializeFaceDetector to   *)
(* the end of setupSource, with the loadedmetadata events of the video     *)
(* element and the requestAnimationFrame chains they start.  No time       *)
(* passes: the one frame a source shows is the frame at time 0.            *)

\* The number of runs of the setup effect.
MaxRuns == 2

\* sourceType
Kinds == {"webcam", "upload"}

\* setupSource() of a run for a source of some kind, up to its first await:
\* a stream the element holds is stopped and srcObject is set to null; for
\* the webcam getUserMedia is awaited; for an upload src is assigned, which
\* loads the file, and the onloadedmetadata handler is installed.
SetupSource(run, kind, v) ==
    IF kind = "webcam"
    THEN [pc      |-> "getUserMedia",
          video   |-> IF v.kind = "stream"
                      THEN [v EXCEPT !.source = 0, !.kind = "none",
                                     !.metadata = "none", !.reset = FALSE]
                      ELSE v,
          playing |-> IF v.kind = "stream" THEN FALSE ELSE playing]
    ELSE [pc      |-> "done",
          video   |-> [source |-> run, kind |-> "file", metadata |-> "pending",
                       handler |-> TRUE, reset |-> FALSE],
          playing |-> FALSE]

\* setup() of a run, from `await initializeFaceDetector()` on: with a
\* detector present the call returns at once and setupSource is entered;
\* with none the fileset is awaited.
Setup(run, kind) ==
    IF faceDetector
    THEN SetupSource(run, kind, video)
    ELSE [pc |-> "fileset", video |-> video, playing |-> playing]

\* The App is mounted: the first run of the effect, for the webcam.
SetupInit ==
    /\ tracks = <<>>
    /\ nextFaceId = 1
    /\ faces = <<>>
    /\ lastVideoTime = -1
    /\ faceDetector = FALSE
    /\ init = "idle"
    /\ clock = 0
    /\ videoTime = 0
    /\ playing = FALSE
    /\ session = 0
    /\ lastFrame = NoFrame
    /\ expired = {}
    /\ issued = <<>>
    /\ timestamps = <<>>
    /\ NoFilter
    /\ NoDome
    /\ setups = <<[kind |-> "webcam", pc |-> "fileset"]>>
    /\ video = NoVideo
    /\ loops = {}
    /\ animationFrame = 0
    /\ detectors = 0

\* The user can change the source to one of this kind: a video file can be
\* uploaded at any time; the webcam is set up again when the source was an
\* upload, or when selectedDeviceId changes, which the camera list of a run
\* that has enumerated the devices allows.
Selectable(kind) ==
    \/ kind = "upload"
    \/ setups[Len(setups)].kind = "upload"
    \/ \E run \in DOMAIN setups : setups[run].kind = "webcam" /\ setups[run].pc = "done"

\* A dependency of the effect changes: the cleanup of the last run cancels
\* the request animationFrameRef.current holds and stops the stream, and
\* setup() is called again.
EffectRun ==
    /\ Len(setups) < MaxRuns
    /\ loops' = loops \ {animationFrame}
    /\ \E kind \in Kinds :
          \E s \in {Setup(Len(setups) + 1, kind)} :
              /\ Selectable(kind)
              /\ setups' = Append(setups, [kind |-> kind, pc |-> s.pc])
              /\ video' = s.video
              /\ playing' = IF video.kind = "stream" THEN FALSE ELSE s.playing
    /\ UNCHANGED <<trackerVars, faceDetector, init, clock, videoTime, session, histVars,
                   kalmanVars, domeVars, animationFrame, detectors>>

\* FilesetResolver.forVisionTasks settles in a run: the creation with the
\* GPU delegate is awaited, or setup() catches the rejection.
FilesetSettled(run) ==
    /\ run \in DOMAIN setups
    /\ setups[run].pc = "fileset"
    /\ \E ok \in BOOLEAN :
          setups' = [setups EXCEPT ![run].pc = IF ok THEN "GPU" ELSE "failed"]
    /\ UNCHANGED <<trackerVars, envVars, histVars, kalmanVars, domeVars,
                   video, loops, animationFrame, detectors>>

\* FaceDetector.createFromOptions settles in a run that awaits it with
\* delegate "GPU" or "CPU": a detector was created and is assigned to
\* faceDetector, initializeFaceDetector returns and setupSource is entered;
\* or the creation throws, to the catch block (GPU) or out of the call (CPU).
CreateSettled(run) ==
    /\ run \in DOMAIN setups
    /\ setups[run].pc \in {"GPU", "CPU"}
    /\ \E ok \in BOOLEAN :
          IF ok
          THEN \E s \in {SetupSource(run, setups[run].kind, video)} :
                  /\ faceDetector' = TRUE
                  /\ detectors' = detectors + 1
                  /\ setups' = [setups EXCEPT ![run].pc = s.pc]
                  /\ video' = s.video
                  /\ playing' = s.playing
          ELSE /\ setups' = [setups EXCEPT ![run].pc =
                                 IF setups[run].pc = "GPU" THEN "CPU" ELSE "failed"]
               /\ UNCHANGED <<faceDetector, detectors, video, playing>>
    /\ UNCHANGED <<trackerVars, init, clock, videoTime, session, histVars,
                   kalmanVars, domeVars, loops, animationFrame>>

\* getUserMedia settles in a run: the stream is assigned to srcObject, which
\* loads it, and enumerateDevices is awaited; or the catch block reports the
\* error and setupSource goes on to install the onloadedmetadata handler.
GetUserMediaSettled(run) ==
    /\ run \in DOMAIN setups
    /\ setups[run].pc = "getUserMedia"
    /\ \E ok \in BOOLEAN :
          IF ok
          THEN /\ setups' = [setups EXCEPT ![run].pc = "enumerate"]
               /\ video' = [source |-> run, kind |-> "stream", metadata |-> "pending",
                            handler |-> video.handler, reset |-> FALSE]
               /\ playing' = FALSE
          ELSE /\ setups' = [setups EXCEPT ![run].pc = "error"]
               /\ video' = [video EXCEPT !.handler = TRUE]
               /\ playing' = playing
    /\ UNCHANGED <<trackerVars, faceDetector, init, clock, videoTime, session, histVars,
                   kalmanVars, domeVars, loops, animationFrame, detectors>>

\* enumerateDevices settles in a run: the devices are listed, or the catch
\* block reports the error; either way setupSource installs the
\* onloadedmetadata handler.
EnumerateDevicesSettled(run) ==
    /\ run \in DOMAIN setups
    /\ setups[run].pc = "enumerate"
    /\ \E ok \in BOOLEAN :
          setups' = [setups EXCEPT ![run].pc = IF ok THEN "done" ELSE "error"]
    /\ video' = [video EXCEPT !.handler = TRUE]
    /\ UNCHANGED <<trackerVars, envVars, histVars, kalmanVars, domeVars,
                   loops, animationFrame, detectors>>

\* The element has loaded the metadata of its source and fires
\* loadedmetadata.  The handler, if one is installed, calls play(), resets
\* tracking and calls startDetectionLoop(), which runs loop() once and
\* leaves its request in animationFrameRef.current; without handler the
\* event has no effect.
MetadataLoaded ==
    /\ video.metadata = "pending"
    /\ IF video.handler
       THEN /\ video' = [video EXCEPT !.metadata = "fired", !.reset = TRUE]
            /\ session' = session + 1
            /\ videoTime' = 0
            /\ \E allowed \in BOOLEAN :
                  /\ playing' = allowed
                  /\ LoopBody(<<>>, 1, <<>>, allowed, 0, session + 1)
            /\ loops' = loops \cup {session + 1}
            /\ animationFrame' = session + 1
       ELSE /\ video' = [video EXCEPT !.metadata = "fired"]
            /\ UNCHANGED <<trackerVars, histVars, session, videoTime, playing,
                           loops, animationFrame>>
    /\ UNCHANGED <<faceDetector, init, clock, kalmanVars, domeVars, setups, detectors>>

\* One requestAnimationFrame callback of a running chain: loop() runs and
\* leaves the chain's next request in animationFrameRef.current.
AnimationFrame(chain) ==
    /\ chain \in loops
    /\ LoopBody(tracks, nextFaceId, issued, playing, videoTime, session)
    /\ animationFrame' = chain
    /\ UNCHANGED <<envVars, kalmanVars, domeVars, setups, video, loops, detectors>>

SetupNext ==
    \/ EffectRun
    \/ \E run \in 1..MaxRuns : FilesetSettled(run)
    \/ \E run \in 1..MaxRuns : CreateSettled(run)
    \/ \E run \in 1..MaxRuns : GetUserMediaSettled(run)
    \/ \E run \in 1..MaxRuns : EnumerateDevicesSettled(run)
    \/ MetadataLoaded
    \/ \E chain \in 1..MaxRuns : AnimationFrame(chain)

SetupSpec == SetupInit /\ [][SetupNext]_vars

\* Every promise a run awaits settles, every loadedmetadata event that is
\* due is fired and every running chain gets its callbacks; the user is
\* not bound to change the source.
SetupFairSpec ==
    /\ SetupSpec
    /\ \A run \in 1..MaxRuns :
          /\ WF_vars(FilesetSettled(run))
          /\ WF_vars(CreateSettled(run))
          /\ WF_vars(GetUserMediaSettled(run))
          /\ WF_vars(EnumerateDevicesSettled(run))
    /\ WF_vars(MetadataLoaded)
    /\ \A chain \in 1..MaxRuns : WF_vars(AnimationFrame(chain))

---------------------------------------------------------------------------
(* The detection-major variant of the App: no smoothing, a track holds the *)
(* raw box of its last detection; the frame goes through the detections    *)
(* and looks for the nearest track of each.  VariantSpec runs its loop     *)
(* from the first call of loop(), with a detector and an empty store.      *)

\* Math.max(tracked.boundingBox.width, box.width) * 1.2
VariantFactor == [n |-> 6, d |-> 5]

\* trackedFacesRef.current.forEach((tracked, idx) => ...) for one detection,
\* from track idx on: the final bestMatchIdx (0 for the code's -1).
RECURSIVE ScanTracked(_, _, _, _, _, _)
ScanTracked(ts, box, used, idx0, bestMatchIdx0, minDist0) ==
    With3(idx0, bestMatchIdx0, minDist0, LAMBDA idx, bestMatchIdx, minDist :
        IF idx > Len(ts) THEN bestMatchIdx
        ELSE IF idx \in used
             THEN ScanTracked(ts, box, used, idx + 1, bestMatchIdx, minDist)
             ELSE With2(Dist(ts[idx].boundingBox, box),
                        RMul(RMax(ts[idx].boundingBox.width, box.width), VariantFactor),
                        LAMBDA dist, threshold :
                      IF WithinThreshold(dist, threshold) /\ Closer(dist, bestMatchIdx, minDist)
                      THEN ScanTracked(ts, box, used, idx + 1, idx, dist)
                      ELSE ScanTracked(ts, box, used, idx + 1, bestMatchIdx, minDist)))

\* for (const { box, score } of currentDets) ..., from detection i on, with
\* the store ts, the counter nid, usedTrackedIndices and activeFaces so far.
RECURSIVE MatchDetections(_, _, _, _, _, _, _)
MatchDetections(ts0, nid0, currentDets, i0, now, used0, acc0) ==
    With3(ts0, nid0, i0, LAMBDA ts, nid, i :
    With2(used0, acc0, LAMBDA usedTrackedIndices, activeFaces :
        IF i > Len(currentDets)
        THEN [tracks |-> ts, nextFaceId |-> nid, faces |-> activeFaces]
        ELSE With2(currentDets[i].box, currentDets[i].score, LAMBDA box, score :
             With(ScanTracked(ts, box, usedTrackedIndices, 1, 0, <<>>),
                  LAMBDA bestMatchIdx :
                 IF bestMatchIdx # 0
                 THEN MatchDetections(
                          [ts EXCEPT ![bestMatchIdx].boundingBox = box,
                                     ![bestMatchIdx].lastSeen = now],
                          nid, currentDets, i + 1, now,
                          usedTrackedIndices \cup {bestMatchIdx},
                          Append(activeFaces, [id |-> ts[bestMatchIdx].id,
                                               boundingBox |-> box, score |-> score]))
                 ELSE MatchDetections(
                          Append(ts, [id |-> IdOf(nid), boundingBox |-> box,
                                      lastSeen |-> now]),
                          nid + 1, currentDets, i + 1, now,
                          usedTrackedIndices,
                          Append(activeFaces, [id |-> IdOf(nid),
                                               boundingBox |-> box, score |-> score]))))))

\* The body of `if (detections && detections.detections)` of the variant:
\* the store, the counter and the face list it leaves.
VariantFrame(ts, nid, result, now) ==
    MatchDetections(Prune(ts, now), nid, MapNormalize(result.detections), 1, now, {}, <<>>)

\* startDetectionLoop() is about to call loop() for the first time.
VariantInit ==
    /\ tracks = <<>>
    /\ nextFaceId = 1
    /\ faces = <<>>
    /\ lastVideoTime = -1
    /\ faceDetector = TRUE
    /\ init = "resolved"
    /\ clock = 0
    /\ videoTime = 0
    /\ playing = TRUE
    /\ session = 1
    /\ lastFrame = NoFrame
    /\ expired = {}
    /\ issued = <<>>
    /\ timestamps = <<>>
    /\ NoUnit

\* loop() of the variant: a new frame of a playing video is tracked.
VariantLoop ==
    /\ IF playing /\ videoTime # lastVideoTime
       THEN /\ lastVideoTime' = videoTime
            /\ \E result \in DetectorResults :
                  \E f \in {VariantFrame(tracks, nextFaceId, result, clock)} :
                      /\ tracks' = f.tracks
                      /\ nextFaceId' = f.nextFaceId
                      /\ faces' = f.faces
       ELSE UNCHANGED trackerVars
    /\ UNCHANGED <<envVars, histVars, unitVars>>

VariantNext ==
    \/ VariantLoop
    \/ Present
    \/ VideoPause
    \/ VideoPlay

VariantSpec == VariantInit /\ [][VariantNext]_vars

---------------------------------------------------------------------------
(* The smoother on its own: a SimpleKalmanFilter constructed with any      *)
(* initial value and any positive noises, and updated with any             *)
(* measurements.                                                           *)

\* The number of update calls on the filter.
MaxUpdates == 3

Estimates == {Num(-4), Num(0), Num(5), R(21, 2)}

Measurements == {Num(-3), Num(0), Num(5)}

ProcessNoises == {Num(1), Num(2)}

MeasurementNoises == {R(1, 2), Num(1), Num(3)}

\* The App is not mounted.
NoApp ==
    /\ tracks = <<>>
    /\ nextFaceId = 1
    /\ faces = <<>>
    /\ lastVideoTime = -1
    /\ faceDetector = FALSE
    /\ init = "idle"
    /\ clock = 0
    /\ videoTime = 0
    /\ playing = FALSE
    /\ session = 0
    /\ lastFrame = NoFrame
    /\ expired = {}
    /\ issued = <<>>
    /\ timestamps = <<>>

\* new SimpleKalmanFilter(initialValue, q, r)
KalmanInit ==
    \E initialValue \in Estimates : \E q \in ProcessNoises : \E r \in MeasurementNoises :
        /\ NoApp
        /\ NoDome
        /\ NoSetup
        /\ filter = KalmanNew(initialValue, q, r)
        /\ measured = <<>>
        /\ returned = Num(0)

\* filter.update(measurement)
FilterUpdate ==
    /\ Len(measured) < MaxUpdates
    /\ \E measurement \in Measurements :
          \E f \in {KalmanUpdate(filter, measurement)} :
              /\ filter' = f
              /\ returned' = f.x
              /\ measured' = Append(measured, measurement)
    /\ UNCHANGED <<trackerVars, envVars, histVars, domeVars, setupVars>>

KalmanNext == FilterUpdate

KalmanSpec == KalmanInit /\ [][KalmanNext]_vars

---------------------------------------------------------------------------
(* The DomeGallery on its own: mounted with any face list and any number   *)
(* of segments, and rendered again with any other face list.               *)

\* The length of the face list handed to the gallery.
MaxPool == 7

\* The number of segments of the gallery.
MaxSegments == 3

\* The k-th face of the lists handed to the gallery.
PoolFace(k) ==
    [id          |-> ToString(k),
     boundingBox |-> [originX |-> Num(10 * k), originY |-> Num(100),
                      width |-> Num(50), height |-> Num(50)],
     score       |-> R(9, 10)]

\* The face lists: faces a + 1 .. a + n
Pools == {[k \in 1..n |-> PoolFace(a + k)] : a \in 0..3, n \in 0..MaxPool}

\* <DomeGallery faces={p} segments={s} /> is about to be rendered for the
\* first time.
DomeInit ==
    \E p \in Pools : \E s \in 0..MaxSegments :
        /\ NoApp
        /\ NoFilter
        /\ NoSetup
        /\ pool = p
        /\ seg = s
        /\ items = <<>>

\* The gallery is rendered, with the face list it has or with a new one:
\* useMemo calls buildItems.
DomeRender ==
    \E p \in Pools :
        /\ pool' = p
        /\ items' = BuildItems(p, seg)
        /\ UNCHANGED <<trackerVars, envVars, histVars, kalmanVars, seg, setupVars>>

DomeNext == DomeRender

DomeSpec == DomeInit /\ [][DomeNext]_vars

---------------------------------------------------------------------------
(* Properties.  They are stated on the state and on the history variables: *)
(* lastFrame holds the locals of the last tracked frame (before: the store *)
(* on entry, live: the store after the prune step, raw: the detections as  *)
(* the detector returned them, dets: rawDetections,                        *)
(* pairs: the <<track, detection>> indices matched, spawned: the indices   *)
(* of the detections that spawned a track, firstId: the counter on entry). *)

\* The number an id string stands for.
IdNum(id) == CHOOSE n \in 0..99 : ToString(n) = id

\* lastFrame is the frame that produced the present store and face list.
Current == session >= 1 /\ lastFrame.session = session

\* A frame is tracked in this step.
Processed == lastVideoTime' # lastVideoTime

\* The detection matched to track i of lastFrame.live, 0 if there is none.
MatchOf(i) ==
    IF \E a \in DOMAIN lastFrame.pairs : lastFrame.pairs[a][1] = i
    THEN lastFrame.pairs[CHOOSE a \in DOMAIN lastFrame.pairs :
                             lastFrame.pairs[a][1] = i][2]
    ELSE 0

\* The detections no track before track i has been matched to.
Unclaimed(i) ==
    {d \in DOMAIN lastFrame.dets :
        \A a \in DOMAIN lastFrame.pairs :
            lastFrame.pairs[a][1] < i => lastFrame.pairs[a][2] # d}

\* The squared distance between the centres of track i and detection d.
DistOf(i, d) == Dist(lastFrame.live[i].currentBox, lastFrame.dets[d].box)

\* DistOf(i, d) is strictly less than max(track width, detection width) * 1.5
InReach(i, d) ==
    LET w == RMax(lastFrame.live[i].currentBox.width, lastFrame.dets[d].box.width)
        t == RMul(w, R(3, 2))
    IN  t.n > 0 /\ SqLess(DistOf(i, d), SqOf(t))

\* The unclaimed detections in reach of track i.
Eligible(i) == {d \in Unclaimed(i) : InReach(i, d)}

\* The id given to detection d of lastFrame: the id of the track matched to
\* it, or of the track it spawned.
AssignedId(d) ==
    IF \E a \in DOMAIN lastFrame.pairs : lastFrame.pairs[a][2] = d
    THEN lastFrame.live[lastFrame.pairs[CHOOSE a \in DOMAIN lastFrame.pairs :
                                            lastFrame.pairs[a][2] = d][1]].id
    ELSE tracks[Len(lastFrame.live)
                + (CHOOSE k \in DOMAIN lastFrame.spawned : lastFrame.spawned[k] = d)].id

\* C1: within one session the ids issued to new tracks are pairwise
\* different and each is numerically greater than every id issued before
\* it, whether or not the earlier track has expired since; every track of
\* the store carries an issued id.
C1_IdsStrictlyIncrease ==
    /\ \A i, j \in DOMAIN issued : i < j => IdNum(issued[i]) < IdNum(issued[j])
    /\ \A i \in DOMAIN tracks : \E k \in DOMAIN issued : issued[k] = tracks[i].id
    /\ \A e \in expired :
          e.session = session => \E k \in DOMAIN issued : issued[k] = e.id

\* C1's case: a track was created in this session after another expired.
C1_Witness ==
    /\ Len(issued) >= 3
    /\ \E e \in expired :
          /\ e.session = session
          /\ \E i \in DOMAIN tracks : IdNum(tracks[i].id) > IdNum(e.id)

\* C2 as claimed: in every step a track leaves the store if and only if the
\* step tracks a frame at whose prune step now - lastSeen >= 500.
C2_RemovedOnlyByExpiry ==
    [][\A i \in DOMAIN tracks :
          (session' # session \/ tracks[i].id \notin Ids(tracks'))
              <=> (Processed /\ clock - tracks[i].lastSeen >= ExpiryWindow)]_vars

\* C2, amended: while the source stays the same, a track leaves the store
\* if and only if the step tracks a frame at whose prune step
\* now - lastSeen >= 500; the loadedmetadata handler of a new source empties
\* the store, whatever the age of its tracks, before any frame is tracked.
C2_RemovedByExpiryOrReset ==
    [][/\ session' = session =>
             \A i \in DOMAIN tracks :
                 tracks[i].id \notin Ids(tracks')
                     <=> (Processed /\ clock - tracks[i].lastSeen >= ExpiryWindow)
       /\ session' # session =>
             IF Processed THEN lastFrame'.before = <<>> /\ lastFrame'.session = session'
                          ELSE tracks' = <<>>]_vars

\* C2's case: a frame pruned one track of the store and kept another.
C2_Witness ==
    /\ Current
    /\ lastFrame.live # <<>>
    /\ Len(lastFrame.before) > Len(lastFrame.live)
    /\ \E i \in DOMAIN lastFrame.before :
          /\ lastFrame.now - lastFrame.before[i].lastSeen >= ExpiryWindow
          /\ lastFrame.before[i].id \notin Ids(tracks)

\* C3: in a frame no detection is matched to two tracks, and a detection
\* matched to a track spawns none, so that each detection of the frame
\* accounts for exactly one face and the store grows by the unmatched
\* detections only.
C3_DetectionUsedOnce ==
    /\ \A a, b \in DOMAIN lastFrame.pairs :
          a # b => lastFrame.pairs[a][2] # lastFrame.pairs[b][2]
    /\ \A k \in DOMAIN lastFrame.spawned :
          \A a \in DOMAIN lastFrame.pairs : lastFrame.pairs[a][2] # lastFrame.spawned[k]
    /\ Current =>
          /\ Len(faces) = Len(lastFrame.dets)
          /\ Len(tracks) = Len(lastFrame.live) + Len(lastFrame.dets) - Len(lastFrame.pairs)

\* C3's case: two tracks were in reach of one detection, the first took it
\* and the second stayed unmatched.
C3_Witness ==
    \E i, j \in DOMAIN lastFrame.live :
        /\ i < j
        /\ MatchOf(i) # 0
        /\ MatchOf(j) = 0
        /\ InReach(j, MatchOf(i))

\* C4 as claimed: the candidate of a track is the nearest unclaimed
\* detection, whether in reach or not; the track is matched to it if it is
\* in reach and is left unmatched if it is not.
C4_NearestThenThreshold ==
    \A i \in DOMAIN lastFrame.live :
        /\ MatchOf(i) # 0 =>
              /\ InReach(i, MatchOf(i))
              /\ \A d \in Unclaimed(i) : ~SqLess(DistOf(i, d), DistOf(i, MatchOf(i)))
        /\ MatchOf(i) = 0 =>
              \A d \in Unclaimed(i) :
                  (\A d2 \in Unclaimed(i) : ~SqLess(DistOf(i, d2), DistOf(i, d)))
                      => ~InReach(i, d)

\* C4, amended: each detection is tested against its own threshold
\* max(trackWidth, detectionWidth) * 1.5 before distances are compared, so
\* the track is matched to the nearest of the unclaimed detections that are
\* in reach (the first of them in input order when several are equally
\* near), and is left unmatched only if no unclaimed detection is in reach;
\* a nearer detection that is out of reach does not block a farther one
\* that is in reach.
C4_NearestInReach ==
    \A i \in DOMAIN lastFrame.live :
        /\ MatchOf(i) # 0 =>
              /\ MatchOf(i) \in Eligible(i)
              /\ \A d \in Eligible(i) :
                    /\ ~SqLess(DistOf(i, d), DistOf(i, MatchOf(i)))
                    /\ d < MatchOf(i) => SqLess(DistOf(i, MatchOf(i)), DistOf(i, d))
        /\ MatchOf(i) = 0 => Eligible(i) = {}

\* C4's case: a track is matched although an unclaimed detection is
\* strictly nearer, that one being out of reach.
C4_Witness ==
    \E i \in DOMAIN lastFrame.live :
        /\ MatchOf(i) # 0
        /\ \E d \in Unclaimed(i) :
              /\ ~InReach(i, d)
              /\ SqLess(DistOf(i, d), DistOf(i, MatchOf(i)))

\* C5: the store is in creation order and the tracks are matched in that
\* order; a track is matched among the detections that the tracks before it
\* left, and no track after it is given a detection that it could have
\* taken with profit: one in its reach when it stayed unmatched, or in its
\* reach and strictly nearer than its own match.
C5_TrackMajorGreedy ==
    /\ \A i, j \in DOMAIN lastFrame.live :
          i < j => IdNum(lastFrame.live[i].id) < IdNum(lastFrame.live[j].id)
    /\ \A a, b \in DOMAIN lastFrame.pairs :
          a < b => lastFrame.pairs[a][1] < lastFrame.pairs[b][1]
    /\ \A i, j \in DOMAIN lastFrame.live :
          (i < j /\ MatchOf(j) # 0) =>
              /\ MatchOf(j) # MatchOf(i)
              /\ InReach(i, MatchOf(j)) =>
                    /\ MatchOf(i) # 0
                    /\ ~SqLess(DistOf(i, MatchOf(j)), DistOf(i, MatchOf(i)))

\* C5's case: an earlier track took a detection that a later track was
\* strictly nearer to and in reach of.
C5_Witness ==
    \E i, j \in DOMAIN lastFrame.live :
        /\ i < j
        /\ MatchOf(i) # 0
        /\ InReach(j, MatchOf(i))
        /\ SqLess(DistOf(j, MatchOf(i)), DistOf(i, MatchOf(i)))

\* C6: the face list of a frame is the matched tracks, in store order,
\* followed by the spawned tracks, in the order of their detections in the
\* input; every face of a track that existed before the frame precedes
\* every face of a track the frame created.
C6_MatchedThenSpawned ==
    Current =>
        /\ Len(faces) = Len(lastFrame.pairs) + Len(lastFrame.spawned)
        /\ \A k \in DOMAIN lastFrame.pairs :
              faces[k].id = lastFrame.live[lastFrame.pairs[k][1]].id
        /\ \A a, b \in DOMAIN lastFrame.pairs :
              a < b => lastFrame.pairs[a][1] < lastFrame.pairs[b][1]
        /\ \A k \in DOMAIN lastFrame.spawned :
              /\ faces[Len(lastFrame.pairs) + k].id = tracks[Len(lastFrame.live) + k].id
              /\ faces[Len(lastFrame.pairs) + k].boundingBox
                    = lastFrame.dets[lastFrame.spawned[k]].box
        /\ \A a, b \in DOMAIN lastFrame.spawned :
              a < b => lastFrame.spawned[a] < lastFrame.spawned[b]
        /\ \A a, b \in DOMAIN faces :
              (faces[a].id \notin Ids(lastFrame.live) /\ faces[b].id \in Ids(lastFrame.live))
                  => b < a

\* C6's case: a frame with two matched tracks whose detections came in the
\* other order, or with a spawned detection that came before a matched one.
C6_Witness ==
    /\ Current
    /\ \/ /\ Len(lastFrame.pairs) = 2
          /\ lastFrame.pairs[1][2] > lastFrame.pairs[2][2]
       \/ /\ Len(lastFrame.pairs) >= 1
          /\ Len(lastFrame.spawned) >= 1
          /\ lastFrame.spawned[1] < lastFrame.pairs[1][2]

\* The detections of lastFrame that no track was matched to.
Unmatched ==
    {d \in DOMAIN lastFrame.dets :
        \A a \in DOMAIN lastFrame.pairs : lastFrame.pairs[a][2] # d}

\* C7: the unmatched detections of a frame, and only they, each spawn one
\* track, in input order, appended to the store after the tracks that were
\* there; the k-th of them gets the id that is the counter on entry plus
\* k - 1 written as a string (the first id of a session is "1"), lastSeen
\* now, the detection's score and its raw box as currentBox; the face
\* emitted for it carries that id, box and score; the counter ends up
\* incremented by one per spawned track.
C7_SpawnUnmatched ==
    /\ issued # <<>> => issued[1] = "1"
    /\ Current =>
          /\ {lastFrame.spawned[k] : k \in DOMAIN lastFrame.spawned} = Unmatched
          /\ Len(lastFrame.spawned) = Cardinality(Unmatched)
          /\ Len(tracks) = Len(lastFrame.live) + Len(lastFrame.spawned)
          /\ nextFaceId = lastFrame.firstId + Len(lastFrame.spawned)
          /\ \A k \in DOMAIN lastFrame.spawned :
                LET det  == lastFrame.dets[lastFrame.spawned[k]]
                    t    == tracks[Len(lastFrame.live) + k]
                    face == faces[Len(lastFrame.pairs) + k]
                IN  /\ t.id = ToString(lastFrame.firstId + k - 1)
                    /\ t.lastSeen = lastFrame.now
                    /\ t.score = det.score
                    /\ t.currentBox = det.box
                    /\ face = [id |-> t.id, boundingBox |-> det.box, score |-> det.score]

\* C7's case: a frame spawned a track behind the tracks of the store, from
\* a counter that had advanced already.
C7_Witness ==
    /\ Current
    /\ lastFrame.live # <<>>
    /\ lastFrame.firstId > 1
    /\ Len(lastFrame.spawned) >= 1
    /\ Len(lastFrame.pairs) >= 1

\* C8: a matched track stays at its place in the store and keeps its id;
\* its lastSeen is now, its score the detection's; each of its filters is
\* the former filter after one update with the detection's raw originX,
\* originY, width and height; its currentBox is the four filter outputs;
\* the face emitted for it carries its id, that currentBox and that score.
C8_MatchedUpdate ==
    Current =>
        \A k \in DOMAIN lastFrame.pairs :
            LET old == lastFrame.live[lastFrame.pairs[k][1]]
                det == lastFrame.dets[lastFrame.pairs[k][2]]
                t   == tracks[lastFrame.pairs[k][1]]
            IN  /\ t.id = old.id
                /\ t.lastSeen = lastFrame.now
                /\ t.score = det.score
                /\ t.filters.x = KalmanUpdate(old.filters.x, det.box.originX)
                /\ t.filters.y = KalmanUpdate(old.filters.y, det.box.originY)
                /\ t.filters.w = KalmanUpdate(old.filters.w, det.box.width)
                /\ t.filters.h = KalmanUpdate(old.filters.h, det.box.height)
                /\ t.currentBox = [originX |-> t.filters.x.x, originY |-> t.filters.y.x,
                                   width |-> t.filters.w.x, height |-> t.filters.h.x]
                /\ faces[k] = [id |-> old.id, boundingBox |-> t.currentBox,
                               score |-> det.score]

\* C8's case: a track was matched to a detection away from it, so that the
\* smoothed box is neither the former box nor the raw one.
C8_Witness ==
    /\ Current
    /\ \E k \in DOMAIN lastFrame.pairs :
          /\ tracks[lastFrame.pairs[k][1]].currentBox
                # lastFrame.dets[lastFrame.pairs[k][2]].box
          /\ tracks[lastFrame.pairs[k][1]].currentBox
                # lastFrame.live[lastFrame.pairs[k][1]].currentBox

\* C9 as claimed: the id of a track that the prune step removed is in no
\* later store and in no later face list.
C9_ExpiredIdNeverReturns ==
    \A e \in expired :
        /\ e.id \notin Ids(tracks)
        /\ \A k \in DOMAIN faces : faces[k].id # e.id

\* C9, amended: until the next source change, the id of a track that the
\* prune step removed is in no later store and in no later face list, and
\* a detection at the place of the removed track gets another id; the
\* loadedmetadata handler of a new source restarts the counter at 1, and
\* the ids of the earlier sessions are issued again.
C9_ExpiredIdNeverReturnsInSession ==
    \A e \in expired :
        e.session = session =>
            /\ e.id \notin Ids(tracks)
            /\ \A k \in DOMAIN faces : faces[k].id # e.id
            /\ Current =>
                  \A d \in DOMAIN lastFrame.dets :
                      lastFrame.dets[d].box = e.box => AssignedId(d) # e.id

\* C9's case: a track expired and a detection at its place has a track in
\* the same session.
C9_Witness ==
    /\ Current
    /\ \E e \in expired :
          /\ e.session = session
          /\ \E d \in DOMAIN lastFrame.dets : lastFrame.dets[d].box = e.box
          /\ \E i \in DOMAIN tracks : tracks[i].currentBox = e.box

\* The tracks of the store on entry of lastFrame that had gone unmatched for
\* 500 ms or more.
Overdue ==
    {i \in DOMAIN lastFrame.before :
        lastFrame.now - lastFrame.before[i].lastSeen >= ExpiryWindow}

\* C10 as claimed, for the tracks removed since the last source change: a
\* track unmatched for 500 ms or more is gone after the next tracked frame,
\* and a detection at its coordinates, in that frame or a later one, gets
\* an id numerically higher than its id.
C10_HigherIdAfterExpiry ==
    Current =>
        /\ \A i \in Overdue : lastFrame.before[i].id \notin Ids(tracks)
        /\ \A e \in expired :
              e.session = session =>
                  \A d \in DOMAIN lastFrame.dets :
                      lastFrame.dets[d].box = e.box
                          => IdNum(AssignedId(d)) > IdNum(e.id)

\* C10, amended: a track unmatched for 500 ms or more is gone after the
\* next tracked frame; until the next source change a detection at its
\* coordinates, in that frame or a later one, never gets its id: it either
\* spawns a track, whose id is numerically higher, or is matched to a track
\* that survived, whose id is another one and may be lower.
C10_OtherIdAfterExpiry ==
    Current =>
        /\ \A i \in Overdue :
              /\ lastFrame.before[i].id \notin Ids(tracks)
              /\ \E e \in expired :
                    e.session = session /\ e.id = lastFrame.before[i].id
        /\ \A e \in expired :
              e.session = session =>
                  \A d \in DOMAIN lastFrame.dets :
                      lastFrame.dets[d].box = e.box =>
                          /\ AssignedId(d) # e.id
                          /\ d \in Unmatched => IdNum(AssignedId(d)) > IdNum(e.id)
                          /\ d \notin Unmatched => AssignedId(d) \in Ids(lastFrame.live)

\* C10's case: the frame removed a track unmatched for 500 ms and spawned a
\* track for a detection at its coordinates.
C10_Witness ==
    /\ Current
    /\ \E i \in Overdue :
          \E d \in Unmatched : lastFrame.dets[d].box = lastFrame.before[i].currentBox

\* The last frame had one detection and left one track, which sits at the
\* box of that detection and is the one face published.
Stationary ==
    /\ Current
    /\ Len(lastFrame.dets) = 1
    /\ Len(tracks) = 1
    /\ tracks[1].currentBox = lastFrame.dets[1].box
    /\ Len(faces) = 1
    /\ faces[1].id = tracks[1].id

\* This step tracks a frame of the same source with the detections of the
\* last frame.
SameDetectionsAgain ==
    /\ session' = session
    /\ Processed
    /\ lastFrame'.dets = lastFrame.dets

\* C11 as claimed: a frame with one detection on an empty store leaves one
\* track at that detection and one face, and every further frame with the
\* same detection leaves that one track, with the same id, and one face.
C11_StationaryKeepsId ==
    [][/\ (Processed /\ lastFrame'.before = <<>> /\ Len(lastFrame'.dets) = 1)
             => Stationary'
       /\ (Stationary /\ SameDetectionsAgain)
             => (Stationary' /\ tracks'[1].id = tracks[1].id)]_vars

\* C11, amended: a frame with one detection on an empty store leaves one
\* track at that detection and one face; every further frame with the same
\* detection leaves that one track, with the same id, and one face,
\* provided the box has a width above 0 and the frame comes less than
\* 500 ms after the one before.  A box of width 0 is never in reach of its
\* own track (0 < 0 fails) and spawns a new track in every frame; a gap of
\* 500 ms or more expires the track and the detection gets a new id.
C11_StationaryKeepsIdInTime ==
    [][/\ (Processed /\ lastFrame'.before = <<>> /\ Len(lastFrame'.dets) = 1)
             => Stationary'
       /\ (/\ Stationary
           /\ SameDetectionsAgain
           /\ lastFrame.dets[1].box.width.n > 0
           /\ clock - lastFrame.now < ExpiryWindow)
             => (Stationary' /\ tracks'[1].id = tracks[1].id)]_vars

\* C11's case: the third frame in a row with the same detection, 250 ms
\* apart, still has the first track of the session and nothing else.
C11_Witness ==
    /\ Stationary
    /\ lastFrame.now = 500
    /\ tracks[1].id = "1"
    /\ issued = <<"1">>
    /\ lastFrame.pairs = <<<<1, 1>>>>
    /\ lastFrame.before[1].lastSeen = 250
    /\ lastFrame.before[1].currentBox = lastFrame.dets[1].box
    /\ lastFrame.before[1].filters.x.p # NewFilters(lastFrame.dets[1].box).x.p

C13_ResetOnSourceChange ==
    [][/\ session' # session =>
             /\ nextFaceId' = Len(tracks') + 1
             /\ \A i \in DOMAIN tracks' : tracks'[i].id = ToString(i)
             /\ IF Processed
                THEN /\ lastFrame'.session = session'
                     /\ lastFrame'.before = <<>>
                     /\ lastFrame'.firstId = 1
                ELSE tracks' = <<>>
       /\ session' = session =>
             IF Processed THEN lastFrame'.before = tracks
                          ELSE tracks' = tracks /\ nextFaceId' = nextFaceId
       /\ Processed => \A k \in DOMAIN faces' : faces'[k].id \in Ids(tracks')
       /\ (issued' # <<>> /\ (session' # session \/ issued = <<>>))
             => issued'[1] = "1"]_vars

\* C13's case: the second source has a track "1" of its own after the first
\* source had its track "1" expire.
C13_Witness ==
    /\ session = 2
    /\ Current
    /\ tracks # <<>>
    /\ tracks[1].id = "1"
    /\ \E e \in expired : e.session = 1 /\ e.id = "1"

\* The id given to detection d of frame f, which left the store ts.
AssignedIdIn(f, ts, d) ==
    IF \E a \in DOMAIN f.pairs : f.pairs[a][2] = d
    THEN f.live[f.pairs[CHOOSE a \in DOMAIN f.pairs : f.pairs[a][2] = d][1]].id
    ELSE ts[Len(f.live) + (CHOOSE k \in DOMAIN f.spawned : f.spawned[k] = d)].id

\* The centres of detections d1 and d2 of lastFrame are farther apart than
\* max(width) * 1.5
FarApart(d1, d2) ==
    LET b1 == lastFrame.dets[d1].box
        b2 == lastFrame.dets[d2].box
    IN  SqLess(SqOf(RMul(RMax(b1.width, b2.width), R(3, 2))), Dist(b1, b2))

\* The track of the store that has detection d of lastFrame sits at its box.
TrackSitsAt(d) ==
    \E i \in DOMAIN tracks :
        /\ tracks[i].id = AssignedId(d)
        /\ tracks[i].currentBox = lastFrame.dets[d].box

\* Detection e of the next frame has the box of detection d of lastFrame.
SameBox(e, d) == lastFrame'.dets[e].box = lastFrame.dets[d].box

\* C14 as claimed: two detections of a frame that are far apart have
\* tracks with distinct ids, and in the next frame of the session that
\* detects both again the track of the one is not given the detection of
\* the other.
C14_FarApartNeverSwap ==
    [][(Current /\ session' = session /\ Processed) =>
           \A d1, d2 \in DOMAIN lastFrame.dets :
               (d1 # d2 /\ FarApart(d1, d2)) =>
                   /\ AssignedId(d1) # AssignedId(d2)
                   /\ \A e1, e2 \in DOMAIN lastFrame'.dets :
                         (SameBox(e1, d1) /\ SameBox(e2, d2)) =>
                             AssignedIdIn(lastFrame', tracks', e2) # AssignedId(d1)]_vars

\* C14, amended: two detections of a frame that are far apart have tracks
\* with distinct ids, and in the next frame of the session that detects
\* both again a track that sits at the box of the one (it was spawned from
\* it or is stationary on it) is not given the detection of the other.  A
\* track that was matched to the one from elsewhere, with a larger width,
\* can be in reach of both and take the other in the next frame.
C14_FarApartNeverSwapWhenAtBox ==
    [][(Current /\ session' = session /\ Processed) =>
           \A d1, d2 \in DOMAIN lastFrame.dets :
               (d1 # d2 /\ FarApart(d1, d2)) =>
                   /\ AssignedId(d1) # AssignedId(d2)
                   /\ TrackSitsAt(d1) =>
                         \A e1, e2 \in DOMAIN lastFrame'.dets :
                             (SameBox(e1, d1) /\ SameBox(e2, d2)) =>
                                 AssignedIdIn(lastFrame', tracks', e2) # AssignedId(d1)]_vars

\* C14's case: two detections far apart are detected again and the two
\* tracks that sat at their boxes are matched each to its own.
C14_Witness ==
    /\ Current
    /\ \E a, b \in DOMAIN lastFrame.pairs :
          /\ a # b
          /\ FarApart(lastFrame.pairs[a][2], lastFrame.pairs[b][2])
          /\ lastFrame.live[lastFrame.pairs[a][1]].currentBox
                = lastFrame.dets[lastFrame.pairs[a][2]].box
          /\ lastFrame.live[lastFrame.pairs[b][1]].currentBox
                = lastFrame.dets[lastFrame.pairs[b][2]].box

\* Field f of the box of the detector's detection det, 0 when the box or
\* the field is missing.
FieldOrZero(det, f) ==
    IF det.boundingBox = <<>> THEN Num(0)
    ELSE IF det.boundingBox[1][f] = <<>> THEN Num(0)
    ELSE det.boundingBox[1][f][1]

\* C15: every detection of the detector's result is tracked, in its place,
\* with its score and with the four fields of its box, 0 standing for each
\* missing one; it is matched to a track or spawns one like any other
\* detection, and the frame publishes a face for it.
C15_MissingFieldsAreZero ==
    /\ Len(lastFrame.dets) = Len(lastFrame.raw)
    /\ \A d \in DOMAIN lastFrame.raw :
          /\ lastFrame.dets[d].score = lastFrame.raw[d].categories[1].score
          /\ \A f \in {"originX", "originY", "width", "height"} :
                lastFrame.dets[d].box[f] = FieldOrZero(lastFrame.raw[d], f)
          /\ \/ \E a \in DOMAIN lastFrame.pairs : lastFrame.pairs[a][2] = d
             \/ \E k \in DOMAIN lastFrame.spawned : lastFrame.spawned[k] = d
          /\ Current =>
                \E k \in DOMAIN faces :
                    \E i \in DOMAIN tracks :
                        /\ faces[k].id = AssignedId(d)
                        /\ tracks[i].id = AssignedId(d)
                        /\ tracks[i].score = lastFrame.dets[d].score

\* C15's case: a frame tracked a detection without box and, at another
\* time, one without width and height, next to a complete one.
C15_Witness ==
    /\ Current
    /\ Len(faces) = Len(lastFrame.raw)
    /\ \E d \in DOMAIN lastFrame.raw :
          /\ \/ lastFrame.raw[d].boundingBox = <<>>
             \/ /\ lastFrame.raw[d].boundingBox # <<>>
                /\ lastFrame.raw[d].boundingBox[1].width = <<>>
                /\ Len(lastFrame.raw) = 2
          /\ lastFrame.dets[d].box.width = Num(0)

\* C16 as claimed: no video timestamp is tracked twice in a session.
C16_OncePerTimestamp ==
    \A i, j \in DOMAIN timestamps : i # j => timestamps[i] # timestamps[j]

\* C16, amended: a tick changes the store, the counter or the published
\* face list only if the video plays and its timestamp differs from the
\* one of the last tick that read a new timestamp; a tick that observes
\* that same timestamp again is a no-op.  Only the last timestamp is
\* remembered (lastVideoTimeRef): two frames tracked in a row never have
\* the same timestamp, but a timestamp tracked earlier is tracked again
\* when it comes back after another one, as when an uploaded video loops.
C16_OncePerConsecutiveTimestamp ==
    [][/\ (/\ session' = session
           /\ <<tracks, nextFaceId, faces, timestamps>>'
                 # <<tracks, nextFaceId, faces, timestamps>>)
             => /\ playing
                /\ videoTime # lastVideoTime
                /\ lastVideoTime' = videoTime
                /\ timestamps' = Append(timestamps, videoTime)
       /\ \A k \in 1..(Len(timestamps') - 1) : timestamps'[k] # timestamps'[k + 1]]_vars

\* C16's case: the video has looped and its first timestamp was tracked a
\* second time, after another one; a tick in this state reads the
\* timestamp of the last frame again.
C16_Witness ==
    /\ Current
    /\ playing
    /\ videoTime = lastVideoTime
    /\ Len(timestamps) = 3
    /\ timestamps[1] = timestamps[3]
    /\ tracks # <<>>

\* C17: the lastSeen of a track never decreases: in every step a track
\* that stays in the store has a lastSeen greater than or equal to the one
\* it had, and no lastSeen is later than the clock that is written to it.
C17_LastSeenNeverDecreases ==
    [][/\ session' = session =>
             \A i \in DOMAIN tracks : \A j \in DOMAIN tracks' :
                 tracks'[j].id = tracks[i].id
                     => tracks'[j].lastSeen >= tracks[i].lastSeen
       /\ \A j \in DOMAIN tracks' : tracks'[j].lastSeen <= clock']_vars

\* C17's case: the last frame matched a track and wrote a later lastSeen
\* to it, next to a track it left alone.
C17_Witness ==
    /\ Current
    /\ \E a \in DOMAIN lastFrame.pairs :
          \E j \in DOMAIN tracks :
              /\ tracks[j].id = lastFrame.live[lastFrame.pairs[a][1]].id
              /\ tracks[j].lastSeen = lastFrame.now
              /\ tracks[j].lastSeen > lastFrame.live[lastFrame.pairs[a][1]].lastSeen
    /\ \E i \in DOMAIN lastFrame.live :
          /\ MatchOf(i) = 0
          /\ \E j \in DOMAIN tracks :
                /\ tracks[j].id = lastFrame.live[i].id
                /\ tracks[j].lastSeen = lastFrame.live[i].lastSeen

\* C18: the published face list changes only in a step that tracks a
\* frame, and after such a step it is the complete result of the frame:
\* the store is the pruned store followed by the spawned tracks, every
\* detection was matched or has spawned a track, and the list holds one
\* face per matched track, in store order, with the updated box and score,
\* followed by one face per spawned track.
C18_FaceListIsWholeFrame ==
    [][/\ faces' # faces => Processed
       /\ Processed =>
             /\ lastFrame'.live = Prune(lastFrame'.before, lastFrame'.now)
             /\ Len(tracks') = Len(lastFrame'.live) + Len(lastFrame'.spawned)
             /\ \A d \in DOMAIN lastFrame'.dets :
                   \/ \E a \in DOMAIN lastFrame'.pairs : lastFrame'.pairs[a][2] = d
                   \/ \E k \in DOMAIN lastFrame'.spawned : lastFrame'.spawned[k] = d
             /\ Len(faces') = Len(lastFrame'.pairs) + Len(lastFrame'.spawned)
             /\ \A a \in DOMAIN lastFrame'.pairs :
                   faces'[a] = FaceOf(tracks'[lastFrame'.pairs[a][1]])
             /\ \A k \in DOMAIN lastFrame'.spawned :
                   faces'[Len(lastFrame'.pairs) + k]
                       = FaceOf(tracks'[Len(lastFrame'.live) + k])]_vars

\* C18's case: the last frame matched one track, left a second one
\* unmatched in the store and spawned a third: the list has the matched
\* face first and the spawned face after it.
C18_Witness ==
    /\ Current
    /\ lastFrame.pairs # <<>>
    /\ lastFrame.spawned # <<>>
    /\ Len(faces) = 2
    /\ Len(tracks) = 3
    /\ faces[1].id = tracks[1].id
    /\ faces[2].id = tracks[3].id

\* C19: every track of the store has a currentBox of width >= 0 and
\* height >= 0, the detections having widths and heights >= 0: the raw box
\* of its spawn frame, and the smoothed box after every matched update.
C19_SizesNonNegative ==
    /\ Current => \A d \in DOMAIN lastFrame.dets :
                      /\ lastFrame.dets[d].box.width.n >= 0
                      /\ lastFrame.dets[d].box.height.n >= 0
    /\ \A i \in DOMAIN tracks :
          /\ tracks[i].currentBox.width.n >= 0
          /\ tracks[i].currentBox.width.d > 0
          /\ tracks[i].currentBox.height.n >= 0
          /\ tracks[i].currentBox.height.d > 0

\* C19's case: a track was matched to a detection narrower and lower than
\* its box, and its smoothed box has shrunk towards the detection's; another
\* track of the store has the raw box of its spawn frame.
C19_Witness ==
    /\ Current
    /\ lastFrame.spawned # <<>>
    /\ \E a \in DOMAIN lastFrame.pairs :
          LET old == lastFrame.live[lastFrame.pairs[a][1]].currentBox
              det == lastFrame.dets[lastFrame.pairs[a][2]].box
              new == tracks[lastFrame.pairs[a][1]].currentBox
          IN  /\ RLess(det.width, new.width) /\ RLess(new.width, old.width)
              /\ RLess(det.height, new.height) /\ RLess(new.height, old.height)

\* C20: after a frame with no detection in which no track of the store was
\* live (the store was empty, or all its tracks were 500 ms old or more),
\* the face list is empty, the store is empty and the counter is the one
\* the frame started with.
C20_EmptyFrame ==
    (/\ Current
     /\ lastFrame.raw = <<>>
     /\ Prune(lastFrame.before, lastFrame.now) = <<>>)
        => /\ faces = <<>>
           /\ tracks = <<>>
           /\ nextFaceId = lastFrame.firstId

\* C20's case: a frame without detections found only expired tracks in
\* the store, after ids had been issued.
C20_Witness ==
    /\ Current
    /\ lastFrame.raw = <<>>
    /\ lastFrame.before # <<>>
    /\ Prune(lastFrame.before, lastFrame.now) = <<>>
    /\ lastFrame.firstId > 1
    /\ tracks = <<>>
    /\ faces = <<>>

\* |a|
RAbs(a0) == With(a0, LAMBDA a : [n |-> Abs(a.n), d |-> a.d])

\* a < b, for numbers with large denominators
Below(a0, b0) ==
    With2(a0, b0, LAMBDA a, b :
    With(GCD(a.d, b.d), LAMBDA g : a.n * (b.d \div g) < b.n * (a.d \div g)))

\* All the measurements of ms are the same.
Constant(ms) == \A i, j \in DOMAIN ms : ms[i] = ms[j]

\* p * p + q * p - q * r of filter f: negative when its covariance p is
\* below the fixed point of p -> (1 - k) * (p + q), positive when it is above.
FixedPointSide(f0) ==
    With(f0, LAMBDA f : RSub(RMul(f.p, RAdd(f.p, f.q)), RMul(f.q, f.r)))

\* C21: under a constant measurement stream every update leaves the
\* estimate on the side of the measurement it was on, with a residual
\* |estimate - measurement| no larger than before (smaller, unless it was
\* 0 already), for every starting estimate and all positive noises.
C21_MonotoneApproach ==
    [][(measured' # measured /\ Constant(measured')) =>
          LET e  == RSub(filter.x, measured'[1])
              e1 == RSub(filter'.x, measured'[1])
          IN  /\ ~Below(RAbs(e), RAbs(e1))
              /\ e.n > 0 => e1.n >= 0
              /\ e.n < 0 => e1.n <= 0
              /\ e.n = 0 => e1.n = 0
              /\ e.n # 0 => Below(RAbs(e1), RAbs(e))]_vars

\* C21's case: three updates with the same measurement, and the estimate
\* has moved towards it without reaching it.
C21_Witness ==
    /\ Len(measured) >= 3
    /\ Constant(measured)
    /\ filter.x # measured[1]
    /\ filter.q # Num(PositionProcessNoise)
    /\ filter.r # Num(MeasurementNoise)

\* C22: one update is one predict/correct cycle: with p1 = p + q, the gain
\* k satisfies k * (p1 + r) = p1, the estimate moves by k * (measurement -
\* estimate), the covariance becomes p1 - k * p1, the new estimate is
\* returned, and q and r are left as they were.
C22_OneCycle ==
    [][measured' # measured =>
          LET m  == measured'[Len(measured')]
              p1 == RAdd(filter.p, filter.q)
          IN  /\ RMul(filter'.k, RAdd(p1, filter.r)) = p1
              /\ RSub(filter'.x, filter.x) = RMul(filter'.k, RSub(m, filter.x))
              /\ RAdd(filter'.p, RMul(filter'.k, p1)) = p1
              /\ returned' = filter'.x
              /\ filter'.q = filter.q
              /\ filter'.r = filter.r]_vars

\* C22's case: an update with a measurement other than the estimate, after
\* an earlier update with another measurement.
C22_Witness ==
    /\ Len(measured) >= 2
    /\ measured[1] # measured[2]
    /\ returned = filter.x
    /\ returned # measured[Len(measured)]
    /\ filter.k # Num(0)

\* C24: under a constant measurement stream, once the estimate equals the
\* measurement an update returns the same estimate, and the covariance
\* moves towards the fixed point of p -> (1 - k) * (p + q) without crossing
\* it, for all positive noises.
C24_Idempotent ==
    [][(/\ measured' # measured
        /\ Constant(measured')
        /\ filter.x = measured'[1]) =>
          /\ filter'.x = filter.x
          /\ returned' = filter.x
          /\ FixedPointSide(filter).n < 0 =>
                Below(filter.p, filter'.p) /\ FixedPointSide(filter').n < 0
          /\ FixedPointSide(filter).n > 0 =>
                Below(filter'.p, filter.p) /\ FixedPointSide(filter').n > 0
          /\ FixedPointSide(filter).n = 0 => filter'.p = filter.p]_vars

\* C24's case: the estimate equals the measurement and has been updated
\* with it twice or more; the covariance has come down from its initial
\* value towards its fixed point.
C24_Witness ==
    /\ Len(measured) >= 2
    /\ Constant(measured)
    /\ filter.x = measured[1]
    /\ returned = measured[1]
    /\ Below(filter.p, Num(InitialCovariance))
    /\ FixedPointSide(filter).n > 0

\* Filter f holds the value v and has been updated once, with v, since its
\* construction with covariance 1: its gain is (1 + q) / (1 + q + r) and
\* its covariance is (1 + q) - gain * (1 + q), which is not 1.
WarmedUp(f0, v) ==
    With(f0, LAMBDA f :
    With(RAdd(Num(InitialCovariance), f.q), LAMBDA p1 :
        /\ f.x = v
        /\ RMul(f.k, RAdd(p1, f.r)) = p1
        /\ RAdd(f.p, RMul(f.k, p1)) = p1
        /\ f.p # Num(InitialCovariance)))

\* C23: every filter of a track spawned by the last frame holds the raw
\* value of its detection and has been updated exactly once with it; the
\* track's box and the emitted face's box are the raw box.
C23_WarmUp ==
    Current =>
        \A k \in DOMAIN lastFrame.spawned :
            LET t   == tracks[Len(lastFrame.live) + k]
                box == lastFrame.dets[lastFrame.spawned[k]].box
            IN  /\ WarmedUp(t.filters.x, box.originX)
                /\ WarmedUp(t.filters.y, box.originY)
                /\ WarmedUp(t.filters.w, box.width)
                /\ WarmedUp(t.filters.h, box.height)
                /\ t.currentBox = box
                /\ faces[Len(lastFrame.pairs) + k].boundingBox = box

\* C23's case: the last frame spawned a track from a face with a box, next
\* to a track it matched.
C23_Witness ==
    /\ Current
    /\ lastFrame.pairs # <<>>
    /\ \E k \in DOMAIN lastFrame.spawned :
          /\ lastFrame.dets[lastFrame.spawned[k]].box.width.n > 0
          /\ tracks[Len(lastFrame.live) + k].filters.w.p = R(30, 17)
          /\ tracks[Len(lastFrame.live) + k].filters.x.p = R(5, 2)

\* C25: the x and y filters of every track of the store have process
\* noise 2 and measurement noise 15, its width and height filters 1 and 15,
\* all positive, whatever the number of updates the track has had.
C25_NoiseParameters ==
    \A i \in DOMAIN tracks :
        /\ \A a \in {"x", "y"} :
              /\ tracks[i].filters[a].q = Num(2)
              /\ tracks[i].filters[a].r = Num(15)
        /\ \A a \in {"w", "h"} :
              /\ tracks[i].filters[a].q = Num(1)
              /\ tracks[i].filters[a].r = Num(15)
        /\ \A a \in {"x", "y", "w", "h"} :
              tracks[i].filters[a].q.n > 0 /\ tracks[i].filters[a].r.n > 0

\* C25's case: a track that was matched in two frames after its spawn
\* frame (gain 71/266 on x after the third update), next to a track that
\* has only had its initial update.
C25_Witness ==
    /\ \E i \in DOMAIN tracks :
          /\ tracks[i].lastSeen = 2 * 250
          /\ tracks[i].filters.x.k = R(71, 266)
    /\ \E i \in DOMAIN tracks : tracks[i].filters.x.k = R(1, 6)

\* The grid slot in which the items its show the face of identifier id.
SlotOf(its0, id) ==
    With(its0, LAMBDA its :
        CHOOSE c \in {<<its[i].x, its[i].y>> :
                        i \in {j \in DOMAIN its :
                                 its[j].face # <<>> /\ its[j].face[1].id = id}} : TRUE)

\* C26 as claimed: a face that keeps its id from one published face list
\* to the next of the same session is shown in the same grid slot of the
\* gallery in both.
C26_SameSlot ==
    [][(session' = session /\ faces' # faces) =>
          \A a \in DOMAIN faces : \A b \in DOMAIN faces' :
              faces[a].id = faces'[b].id =>
                  SlotOf(BuildItems(faces, Segments), faces[a].id)
                      = SlotOf(BuildItems(faces', Segments), faces[a].id)]_vars

\* C27: the items are the 5 * seg slots of the grid, by non-decreasing
\* Manhattan distance from (0, 0); the item of index i shows pool[i] when i
\* is below the pool length and no face otherwise; no face is shown in two
\* slots, and the faces beyond the number of slots are shown in none.
C27_SlotsInOrder ==
    (items # <<>> \/ seg = 0) =>
    /\ Len(items) = 5 * seg
    /\ {<<items[i].x, items[i].y>> : i \in DOMAIN items}
          = {<<Coords(seg)[j].x, Coords(seg)[j].y>> : j \in 1..(5 * seg)}
    /\ \A i, j \in DOMAIN items :
          /\ i < j => Manhattan(items[i]) <= Manhattan(items[j])
          /\ i # j => <<items[i].x, items[i].y>> # <<items[j].x, items[j].y>>
          /\ (i # j /\ items[i].face # <<>>) => items[i].face # items[j].face
    /\ \A i \in DOMAIN items :
          /\ items[i].index = i - 1
          /\ items[i].face = IF i <= Len(pool) THEN <<pool[i]>> ELSE <<>>
    /\ \A k \in DOMAIN pool :
          k > Len(items) => \A i \in DOMAIN items : items[i].face # <<pool[k]>>

\* C27's case: a gallery of one column was rendered with more faces than
\* its five slots: the first face is in the slot nearest to the centre,
\* the fifth in the last slot, the others in none.
C27_Witness ==
    /\ seg = 1
    /\ Len(pool) = 7
    /\ Len(items) = 5
    /\ items[1].face = <<pool[1]>>
    /\ items[5].face = <<pool[5]>>
    /\ Manhattan(items[1]) < Manhattan(items[5])

C29_OneFacePerDetection ==
    Current =>
        /\ Len(faces) = Len(lastFrame.raw)
        /\ Len(lastFrame.dets) = Len(lastFrame.raw)
        /\ Len(faces) = Len(lastFrame.pairs) + Len(lastFrame.spawned)
        /\ \A d \in DOMAIN lastFrame.raw :
              Cardinality({a \in DOMAIN lastFrame.pairs : lastFrame.pairs[a][2] = d})
                  + Cardinality({k \in DOMAIN lastFrame.spawned : lastFrame.spawned[k] = d})
                  = 1
        /\ \A d \in DOMAIN lastFrame.raw :
              \E b \in DOMAIN faces : faces[b].id = AssignedId(d)

\* C29's case: a frame with two detections and two live tracks: one
\* detection was matched, the other has spawned a track, and one track
\* was left unmatched.
C29_Witness ==
    /\ Current
    /\ Len(lastFrame.raw) = 2
    /\ Len(lastFrame.live) = 2
    /\ Len(lastFrame.pairs) = 1
    /\ Len(lastFrame.spawned) = 1
    /\ Len(faces) = 2

\* C30: the ids of the faces of the published list are pairwise distinct,
\* and so are the ids of the tracks of the store.
C30_DistinctIds ==
    /\ \A a, b \in DOMAIN faces : a # b => faces[a].id # faces[b].id
    /\ \A i, j \in DOMAIN tracks : i # j => tracks[i].id # tracks[j].id

\* C30's case: a store of three tracks, spawned in three frames of one
\* session, the last frame having matched one and spawned one.
C30_Witness ==
    /\ Current
    /\ Len(tracks) = 3
    /\ Len(timestamps) = 3
    /\ Len(issued) = 3
    /\ Len(faces) = 2
    /\ lastFrame.pairs # <<>>
    /\ lastFrame.spawned # <<>>

\* C31: after a tracked frame a track of the store has a face in the
\* published list if and only if its lastSeen is the frame's now; the
\* live tracks the frame did not match are in the store and not in the list.
C31_OutputIffSeenNow ==
    Current =>
        /\ \A i \in DOMAIN tracks :
              (\E b \in DOMAIN faces : faces[b].id = tracks[i].id)
                  <=> tracks[i].lastSeen = lastFrame.now
        /\ \A b \in DOMAIN faces : \E i \in DOMAIN tracks : tracks[i].id = faces[b].id

\* C31's case: the last frame matched one live track and left another
\* unmatched: the list is a strict, non-empty part of the store.
C31_Witness ==
    /\ Current
    /\ lastFrame.pairs # <<>>
    /\ lastFrame.spawned = <<>>
    /\ Len(faces) < Len(tracks)
    /\ \E i \in DOMAIN tracks :
          /\ tracks[i].lastSeen < lastFrame.now
          /\ \A b \in DOMAIN faces : faces[b].id # tracks[i].id

\* C32: a track that the last frame found live (less than 500 ms since
\* its lastSeen) and did not match is in the store as it was before the
\* frame, with the same id, lastSeen, score, currentBox and filters; the
\* tracks that survive the frame keep the order they had in the store.
C32_UnmatchedUnchanged ==
    Current =>
        /\ \A i \in DOMAIN lastFrame.live :
              /\ tracks[i].id = lastFrame.live[i].id
              /\ MatchOf(i) = 0 =>
                    /\ tracks[i] = lastFrame.live[i]
                    /\ \E j \in DOMAIN lastFrame.before : lastFrame.before[j] = tracks[i]
        /\ \A i1, i2 \in DOMAIN lastFrame.live :
              i1 < i2 =>
                  \E j1, j2 \in DOMAIN lastFrame.before :
                      /\ j1 < j2
                      /\ lastFrame.before[j1].id = tracks[i1].id
                      /\ lastFrame.before[j2].id = tracks[i2].id

\* C32's case: the last frame left a track unmatched, 250 ms after its
\* lastSeen, between a track it matched and a track it spawned.
C32_Witness ==
    /\ Current
    /\ Len(lastFrame.live) = 2
    /\ MatchOf(1) # 0
    /\ MatchOf(2) = 0
    /\ lastFrame.spawned # <<>>
    /\ lastFrame.now - tracks[2].lastSeen = 250
    /\ tracks[2].score # Num(0)

\* C33: a track that was left unmatched by the frame before (its lastSeen
\* is older than that frame) and is less than 500 ms old when the next
\* frame is tracked is live in that frame as it was, and if the frame
\* matches it, it is matched at its last smoothed currentBox, keeps its id,
\* is seen now and is in the face list, and its detection spawns
\* no track.
C33_AgingTrackReturns ==
    [][(Processed /\ Current /\ session' = session) =>
          \A j \in DOMAIN tracks :
              (/\ tracks[j].lastSeen < lastFrame.now
               /\ clock - tracks[j].lastSeen < ExpiryWindow) =>
                  \E i \in DOMAIN lastFrame'.live :
                      /\ lastFrame'.live[i] = tracks[j]
                      /\ \A a \in DOMAIN lastFrame'.pairs :
                            lastFrame'.pairs[a][1] = i =>
                                LET det == lastFrame'.dets[lastFrame'.pairs[a][2]]
                                IN  /\ WithinThreshold(
                                          Dist(tracks[j].currentBox, det.box),
                                          Threshold(tracks[j].currentBox, det.box))
                                    /\ tracks'[i].id = tracks[j].id
                                    /\ tracks'[i].lastSeen = clock
                                    /\ tracks'[i].score = det.score
                                    /\ \E b \in DOMAIN faces' : faces'[b].id = tracks[j].id
                                    /\ \A k \in DOMAIN lastFrame'.spawned :
                                          lastFrame'.spawned[k] # lastFrame'.pairs[a][2]
                                    /\ nextFaceId' = nextFaceId + Len(lastFrame'.spawned)]_vars

\* C33's case: a track seen at 0, left unmatched by the frame at 125 and
\* matched by the frame at 250, with the id it had.
C33_Witness ==
    /\ Current
    /\ lastFrame.now = 250
    /\ Len(timestamps) = 3
    /\ \E a \in DOMAIN lastFrame.pairs :
          /\ lastFrame.live[lastFrame.pairs[a][1]].lastSeen = 0
          /\ tracks[lastFrame.pairs[a][1]].id = "1"
          /\ tracks[lastFrame.pairs[a][1]].lastSeen = 250
          /\ tracks[lastFrame.pairs[a][1]].currentBox
                # lastFrame.live[lastFrame.pairs[a][1]].currentBox

\* The track of lastFrame.live that sits where detection d of lastFrame
\* is, with a box of width 0.
ZeroWidthTrackAt(i, d) ==
    /\ lastFrame.live[i].currentBox.width = Num(0)
    /\ lastFrame.live[i].currentBox.originX = lastFrame.dets[d].box.originX
    /\ lastFrame.live[i].currentBox.originY = lastFrame.dets[d].box.originY

\* Detection d of lastFrame spawned a track, whose id no track had before.
SpawnedAnew(d) ==
    /\ \E k \in DOMAIN lastFrame.spawned : lastFrame.spawned[k] = d
    /\ \A a \in DOMAIN lastFrame.pairs : lastFrame.pairs[a][2] # d
    /\ AssignedId(d) \notin Ids(lastFrame.before)
    /\ IdNum(AssignedId(d)) >= lastFrame.firstId

\* C34 as claimed: a detection of width 0 is never matched to a track of
\* width 0, and a detection of width 0 that a frame repeats at the position
\* it had in the frame before spawns a track with a new id.
C34_ZeroSizeAlwaysSpawns ==
    Current =>
        \A d \in DOMAIN lastFrame.dets :
            lastFrame.dets[d].box.width = Num(0) =>
                /\ \A a \in DOMAIN lastFrame.pairs :
                      lastFrame.pairs[a][2] = d =>
                          lastFrame.live[lastFrame.pairs[a][1]].currentBox.width # Num(0)
                /\ (\E i \in DOMAIN lastFrame.live : ZeroWidthTrackAt(i, d)) => SpawnedAnew(d)

\* C34 amended: a detection of width 0 is never matched to a track of width
\* 0; it is matched to a track of positive width that claims it, and spawns
\* a track with a new id otherwise, so that a detection of width 0 that a
\* frame repeats at the position it had in the frame before spawns a track
\* with a new id unless a track of positive width within reach claims it.
C34_ZeroSizeNeverContinuesZeroWidth ==
    Current =>
        \A d \in DOMAIN lastFrame.dets :
            lastFrame.dets[d].box.width = Num(0) =>
                /\ \A a \in DOMAIN lastFrame.pairs :
                      lastFrame.pairs[a][2] = d =>
                          /\ lastFrame.live[lastFrame.pairs[a][1]].currentBox.width # Num(0)
                          /\ lastFrame.live[lastFrame.pairs[a][1]].currentBox.width.n > 0
                          /\ InReach(lastFrame.pairs[a][1], d)
                /\ (\A a \in DOMAIN lastFrame.pairs : lastFrame.pairs[a][2] # d) => SpawnedAnew(d)

\* C34's case: the second frame in a row with one detection without box;
\* the store holds the track of the frame before, of width 0 at the position
\* of the detection, and the frame adds a second one at the same place.
C34_Witness ==
    /\ Current
    /\ Len(timestamps) = 2
    /\ lastFrame.raw = <<FaceNoBox>>
    /\ Len(lastFrame.live) = 1
    /\ ZeroWidthTrackAt(1, 1)
    /\ lastFrame.pairs = <<>>
    /\ lastFrame.spawned = <<1>>
    /\ Len(tracks) = 2
    /\ tracks[1].id = "1"
    /\ tracks[2].id = "2"
    /\ tracks[2].currentBox = tracks[1].currentBox

\* C35: the id counter is greater than the number of every id in the
\* store and is 1 plus the number of tracks spawned since the last reset,
\* and the store is in strictly ascending order of id.
C35_CounterAboveStore ==
    /\ nextFaceId = 1 + Len(issued)
    /\ \A i \in DOMAIN tracks : IdNum(tracks[i].id) < nextFaceId
    /\ \A i, j \in DOMAIN tracks : i < j => IdNum(tracks[i].id) < IdNum(tracks[j].id)

\* C35's case: tracks were spawned and pruned in this session; the store
\* holds two or more tracks, the oldest id is gone and the ids in the store
\* are not consecutive numbers from 1.
C35_Witness ==
    /\ Current
    /\ Len(tracks) >= 2
    /\ tracks[1].id # "1"
    /\ nextFaceId > Len(tracks) + 1
    /\ Len(issued) = nextFaceId - 1
    /\ lastFrame.spawned # <<>>
    /\ lastFrame.pairs # <<>>

\* a <= b, for numbers with large denominators
AtMost(a, b) == ~Below(b, a)

C36_AtMostOneLoop == Cardinality(loops) <= 1

\* C37: a run of setup that has assigned its source to the element and has
\* ended leads to the handler resetting tracking for that source, with a
\* chain running, unless a later run assigns another source.
C37_SetupLeadsToLoop ==
    \A run \in 1..MaxRuns :
        (run \in DOMAIN setups /\ setups[run].pc = "done" /\ video.source = run)
            ~> (video.source # run \/ (video.reset /\ loops # {}))

\* C40: at most one FaceDetector is ever created.
C40_AtMostOneDetector == detectors <= 1

\* C38: in the detection-major variant no two faces of the face list have
\* the same id.
C38_NoSharedId ==
    \A a, b \in DOMAIN faces : a # b => faces[a].id # faces[b].id

===========================================================================
